---------------------------- MODULE Spec2Model ----------------------------
(***************************************************************************)
(* Model of the license service: the license lifecycle (renew, suspend,    *)
(* resume, cancel, expiration sweep) and the seat accounting of            *)
(* activations (activate, deactivate), as the request handlers of the      *)
(* repository execute them.  Every database call a handler awaits is one   *)
(* step of the worker that serves the request, so requests served by       *)
(* different workers interleave between their queries.  The database runs  *)
(* in autocommit mode: no handler opens a transaction or takes a lock.     *)
(*                                                                         *)
(* Datetimes are integers (the clock `now` ticks); an optional datetime is *)
(* the empty sequence (None) or a one-element sequence.  The instance type *)
(* and last_checked_at of an activation are not modelled.                  *)
(***************************************************************************)
EXTENDS Integers, Sequences, FiniteSets, TLC

(* ------------------------------ bounds -------------------------------- *)

\* max_seats offered to provisioning: seat_limit ranges over 1..MaxSeatLimit
MaxSeatLimit == 2
\* the clock runs from 0 to MaxTime
MaxTime == 1
\* number of requests (and sweep runs) served in one behaviour
MaxRequests == 3
\* a provision request lists at most this many products
MaxProducts == 2
\* an event class has at most this many subscriptions
MaxHandlers == 2
\* an event is published while fewer than this many tasks wait in the queue
MaxQueued == 2
\* max_retries of a webhook config ranges over 0..MaxRetries
MaxRetries == 1
\* number of events published to the broker in one behaviour
MaxMessages == 2

(* ------------------------------ values -------------------------------- *)

Workers == {"w1", "w2"}
LicenseKeys == {"K1"}
Products == {"P1", "P2"}
LicenseIds == {"L1", "L2"}
Instances == {"i1", "i2"}
Metadata == {"none", "m1"}
LicenseStatus == {"valid", "suspended", "cancelled", "expired"}

None == << >>
Some(x) == <<x>>
Times == 0..(MaxTime + 1)
OptTime == {None} \cup {Some(t) : t \in Times}

\* the licenses of a key in the order the repository returns them
\* (Meta.ordering = ["-created_at"]: the license provisioned last comes first)
LicenseOrder == <<"L2", "L1">>

(* --------------------------- License entity --------------------------- *)

is_valid_no_expiry_check(license, current_time) ==
    license.status = "valid"

is_valid(license, current_time) ==
    IF license.status # "valid" THEN FALSE
    ELSE IF license.expires_at # None /\ license.expires_at[1] < current_time THEN FALSE
    ELSE TRUE

\* a domain operation yields [ok |-> TRUE, license |-> l'] or [ok |-> FALSE, error |-> e]
Ok(license) == [ok |-> TRUE, license |-> license, error |-> ""]
Raise(error) == [ok |-> FALSE, license |-> None, error |-> error]

renew(license, new_expiration, current_time) ==
    IF new_expiration < current_time
    THEN Raise("ValueError")
    ELSE Ok([license EXCEPT
                !.status = IF license.status = "expired" THEN "valid" ELSE license.status,
                !.expires_at = Some(new_expiration)])

suspend(license) ==
    IF license.status = "cancelled"
    THEN Raise("ValueError")
    ELSE Ok([license EXCEPT !.status = "suspended"])

resume_any(license) ==
    Ok([license EXCEPT !.status = "valid"])

resume(license) ==
    IF license.status # "suspended"
    THEN Raise("ValueError")
    ELSE Ok([license EXCEPT !.status = "valid"])

cancel(license) ==
    Ok([license EXCEPT !.status = "cancelled"])

mark_expired(license) ==
    [license EXCEPT !.status = "expired"]

(* -------------------------- Activation entity ------------------------- *)

Activation_create(id, license_id, instance_identifier, instance_metadata, current_time) ==
    [id |-> id,
     license_id |-> license_id,
     instance_identifier |-> instance_identifier,
     instance_metadata |-> instance_metadata,
     activated_at |-> current_time,
     deactivated_at |-> None,
     is_active |-> TRUE]

deactivate_keep_timestamp(activation, current_time) ==
    IF ~activation.is_active THEN activation
    ELSE [activation EXCEPT !.is_active = FALSE]

deactivate_always(activation, current_time) ==
    [activation EXCEPT !.deactivated_at = Some(current_time), !.is_active = FALSE]

deactivate(activation, current_time) ==
    IF ~activation.is_active THEN activation
    ELSE [activation EXCEPT !.deactivated_at = Some(current_time), !.is_active = FALSE]

reactivate(activation, current_time) ==
    [activation EXCEPT !.activated_at = current_time,
                       !.deactivated_at = None,
                       !.is_active = TRUE]


(* ------------------------------ errors -------------------------------- *)

\* code attribute of each exception class (core/domain/exceptions.py);
\* DomainException raised directly carries its class name as code
ExceptionCode(cls) ==
    CASE cls = "LicenseNotFoundError" -> "LICENSE_NOT_FOUND"
      [] cls = "LicenseExpiredError" -> "LICENSE_EXPIRED"
      [] cls = "LicenseSuspendedError" -> "LICENSE_SUSPENDED"
      [] cls = "LicenseCancelledError" -> "LICENSE_CANCELLED"
      [] cls = "InvalidLicenseKeyError" -> "INVALID_LICENSE_KEY"
      [] cls = "SeatLimitExceededError" -> "SEAT_LIMIT_EXCEEDED"
      [] cls = "ActivationNotFoundError" -> "ACTIVATION_NOT_FOUND"
      [] cls = "InvalidLicenseStatusError" -> "INVALID_LICENSE_STATUS"
      [] OTHER -> cls

DomainExceptions ==
    {"DomainException", "LicenseNotFoundError", "LicenseExpiredError",
     "LicenseSuspendedError", "LicenseCancelledError", "InvalidLicenseKeyError",
     "SeatLimitExceededError", "ActivationNotFoundError", "InvalidLicenseStatusError"}

Response(status, code) == [status |-> status, code |-> code]
NoResponse == Response(0, "")

\* the REST framework's exception handler, used by the product views
custom_exception_handler(cls) ==
    IF cls \in DomainExceptions
    THEN Response(IF cls \in {"LicenseNotFoundError", "ActivationNotFoundError"} THEN 404
                  ELSE IF cls = "InvalidLicenseKeyError" THEN 401
                  ELSE 400,
                  ExceptionCode(cls))
    ELSE Response(500, "INTERNAL_ERROR")

\* the try/except of every brand view: 400 for a DomainException, else 500
brand_view_except(cls) ==
    IF cls \in DomainExceptions
    THEN Response(400, "")
    ELSE Response(500, "")

(* ---------------------------- SeatManager ----------------------------- *)

\* the words activate_license looks for, as each message of can_activate holds them
Contains(error, word) ==
    \/ error = "License has expired" /\ word = "expired"
    \/ error = "License is suspended" /\ word = "suspended"
    \/ error = "License is cancelled" /\ word = "cancelled"
    \/ error = "License seat limit exceeded" /\ word = "seat limit"
    \/ error = "Instance already activated" /\ word = "already activated"

\* can_activate, first check: the message for a license that is not valid, else ""
validity_error(license, current_time) ==
    IF ~is_valid(license, current_time)
    THEN IF license.status = "expired" THEN "License has expired"
         ELSE IF license.status = "suspended" THEN "License is suspended"
         ELSE IF license.status = "cancelled" THEN "License is cancelled"
         ELSE "License is not valid"
    ELSE ""

\* activate_license: the exception raised for a message of can_activate
activation_exception(error) ==
    IF Contains(error, "expired") THEN "LicenseExpiredError"
    ELSE IF Contains(error, "suspended") THEN "LicenseSuspendedError"
    ELSE IF Contains(error, "cancelled") THEN "LicenseCancelledError"
    ELSE IF Contains(error, "seat limit") THEN "SeatLimitExceededError"
    ELSE IF Contains(error, "already activated") THEN "InvalidLicenseStatusError"
    ELSE "DomainException"

has_available_seats_off_by_one(active_count, seat_limit) ==
    active_count <= seat_limit

has_available_seats(active_count, seat_limit) ==
    active_count < seat_limit


(* ------------------------------- state -------------------------------- *)

VARIABLES
    licenses,      \* table licenses: license id -> row
    license_keys,  \* table license_keys: a set of rows
    cache,         \* the status cache: license key -> entry, for the keys cached
    activations,   \* table activations: a set of rows
    now,           \* the clock
    req,           \* per worker: the request it serves, its position and its locals
    started,       \* number of requests started so far
    handled,       \* per API key: the brand requests passed on to a view in the
                   \* rate-limit window the clock is in
    serial,        \* TRUE: one worker serves the requests one after the other
    event_bus,     \* the in-process event bus: its subscriptions and the publish
                   \* in progress
    webhook_configs, \* table webhook_configs: a set of rows
    celery,        \* the task queue, the task a worker runs and the HTTP posts made
    rabbitmq       \* the broker's queue of events and what became of each message

\* the state of event delivery outside the request that publishes
messaging == <<event_bus, webhook_configs, celery, rabbitmq>>

vars == <<licenses, license_keys, cache, activations, now, req, started, handled, serial,
          event_bus, webhook_configs, celery, rabbitmq>>

\* what a worker holds between requests
IdleRequest ==
    [op |-> "none", pc |-> "idle",
     license_key |-> "", product |-> "", license_id |-> "",
     brand_id |-> "", products |-> << >>, max_seats |-> 0, expiration_date |-> None,
     idempotency_key |-> "", body |-> None, events |-> << >>, api_key |-> "",
     instance_identifier |-> "", instance_metadata |-> "none",
     activation_id |-> 0, new_expiration |-> 0,
     license |-> None, existing |-> None, activation |-> None, model |-> None,
     idx |-> 0, queue |-> << >>, created |-> FALSE,
     resp |-> NoResponse, pre |-> << >>]

Free(w) == req[w].pc \in {"idle", "done"}

\* a request may start: the budget is not used up and, in a serial run, one
\* worker serves every request, one after the other
CanStart(w) ==
    /\ Free(w)
    /\ started < MaxRequests
    /\ serial => w = "w1"

\* the stored state and the time when a request starts, kept with the request
Snapshot ==
    [activations |-> activations, licenses |-> licenses,
     license_keys |-> license_keys, cache |-> cache, now |-> now,
     in_flight |-> {v \in Workers : ~ Free(v)}]

Finish(r, resp) == [r EXCEPT !.pc = "done", !.resp = resp]

(* ------------------------------ queries ------------------------------- *)

\* LicenseRepository.find_by_license_key_and_product
find_by_license_key_and_product(license_key, product) ==
    {id \in LicenseIds : licenses[id].license_key_id = license_key
                         /\ licenses[id].product_id = product}

\* ActivationRepository.find_by_license_and_instance: the rows matching
find_by_license_and_instance(license_id, instance_identifier) ==
    {a \in activations : a.license_id = license_id
                         /\ a.instance_identifier = instance_identifier}

\* ActivationRepository.find_active_by_license
find_active_by_license(license_id) ==
    {a \in activations : a.license_id = license_id /\ a.is_active}

\* SeatManager.count_active_seats
count_active_seats(license_id) == Cardinality(find_active_by_license(license_id))

\* ActivationRepository.find_by_id
find_by_id(activation_id) == {a \in activations : a.id = activation_id}

\* uuid.uuid4(): an id no row and no entity in flight holds (the least such)
UsedIds == {a.id : a \in activations}
             \cup {req[w].activation[1].id : w \in {v \in Workers : req[v].activation # None}}
uuid4 == CHOOSE id \in 1..(Cardinality(UsedIds) + 1) : id \notin UsedIds

(* --------------------------- authentication --------------------------- *)

\* table api_keys: A1 of brand B1 and A2 of brand B2 never expire, A3 of
\* brand B1 has expires_at = 0 (last_used_at is not modelled)
ApiKeyModels ==
    [k \in {"A1", "A2", "A3"} |->
        [brand_id |-> IF k = "A2" THEN "B2" ELSE "B1",
         expires_at |-> IF k = "A3" THEN Some(0) ELSE None]]

\* what a request may present as X-API-Key: nothing, a key of no row, a key
ApiKeyInputs == {"", "A0", "A1", "A2", "A3"}

\* what a request may present as X-License-Key: nothing, a key of no row, a key
LicenseKeyInputs == {"", "K0", "K1", "K2"}

authenticate_brand_api_no_expiry(api_key, current_time) ==
    IF api_key = "" THEN 401
    ELSE IF api_key \notin DOMAIN ApiKeyModels THEN 401
    ELSE 0

\* APIKeyAuthenticationMiddleware._authenticate_brand_api: the status of the
\* response it returns, 0 when it lets the request pass (ApiKey.is_valid is
\* false once expires_at < now)
authenticate_brand_api(api_key, current_time) ==
    IF api_key = "" THEN 401
    ELSE IF api_key \notin DOMAIN ApiKeyModels THEN 401
    ELSE IF /\ ApiKeyModels[api_key].expires_at # None
            /\ ApiKeyModels[api_key].expires_at[1] < current_time THEN 401
    ELSE 0

\* the API key a brand's provisioning requests carry: its key without expiry
ApiKeyOf(brand_id) ==
    CHOOSE k \in DOMAIN ApiKeyModels :
       ApiKeyModels[k].brand_id = brand_id /\ ApiKeyModels[k].expires_at = None

\* APIKeyAuthenticationMiddleware._authenticate_product_api
authenticate_product_api(license_key) ==
    IF license_key = "" THEN 401
    ELSE IF ~ \E k \in license_keys : k.id = license_key THEN 401
    ELSE 0

(* ---------------------------- rate limiting --------------------------- *)

\* RateLimitMiddleware.DEFAULT_RATE_LIMIT: requests per window and API key
DEFAULT_RATE_LIMIT == 100

\* RateLimitMiddleware.RATE_LIMIT_WINDOW, in seconds
RATE_LIMIT_WINDOW == 60

\* settings.MIDDLEWARE: the stages every request passes, in order
MIDDLEWARE ==
    <<"django.middleware.security.SecurityMiddleware",
      "django.contrib.sessions.middleware.SessionMiddleware",
      "django.middleware.common.CommonMiddleware",
      "django.middleware.csrf.CsrfViewMiddleware",
      "django.contrib.auth.middleware.AuthenticationMiddleware",
      "django.contrib.messages.middleware.MessageMiddleware",
      "django.middleware.clickjacking.XFrameOptionsMiddleware",
      "core.middleware.tenant.TenantMiddleware",
      "core.middleware.auth.APIKeyAuthenticationMiddleware",
      "core.middleware.observability.ObservabilityMiddleware">>

\* RateLimitMiddleware counts and refuses requests only as a stage of
\* MIDDLEWARE; no other code constructs or calls it
RateLimitInstalled ==
    \E i \in DOMAIN MIDDLEWARE :
       MIDDLEWARE[i] = "core.middleware.rate_limit.RateLimitMiddleware"

\* _check_rate_limit's window_start: the fixed window a time falls in
window_start(current_time) == current_time \div RATE_LIMIT_WINDOW

(* ----------------------- status cache and events --------------------- *)

\* CACHE_TTL_LICENSE_STATUS, in seconds: one tick of the clock is one second
CACHE_TTL_LICENSE_STATUS == 300

\* cache_adapter.get: the entry of the key, if there is one that has not timed out
cache_get(c, license_key, current_time) ==
    IF license_key \in DOMAIN c /\ current_time < c[license_key].timeout
    THEN Some(c[license_key].value)
    ELSE None

\* cache_adapter.set with the status TTL
cache_set(c, license_key, value, current_time) ==
    (license_key :> [value |-> value, timeout |-> current_time + CACHE_TTL_LICENSE_STATUS])
       @@ c

\* LicenseCacheService.invalidate_license_status: cache_adapter.delete
invalidate_license_status(c, license_key) ==
    [k \in (DOMAIN c) \ {license_key} |-> c[k]]

invalidate_for_license_never(c, license) == c

\* what the lifecycle handlers do after the save, and what
\* LicenseCacheInvalidationHandler does for an event that names a license: the
\* license key row of the license, and the delete of its cache entry if found
invalidate_for_license(c, license) ==
    IF \E k \in license_keys : k.id = license.license_key_id
    THEN invalidate_license_status(c, license.license_key_id)
    ELSE c

\* a domain event as the event bus hands it to its subscribers
DomainEvent(event_type, aggregate_id, license_id, license_key_id) ==
    [event_type |-> event_type, aggregate_id |-> aggregate_id,
     license_id |-> license_id, license_key_id |-> license_key_id]

(* ------------------------- event bus and webhooks --------------------- *)

\* the classes of domain event
EventTypes == {"LicenseKeyCreated", "LicenseProvisioned", "LicenseRenewed",
               "LicenseSuspended", "LicenseResumed", "LicenseCancelled",
               "LicenseActivated", "SeatDeactivated"}

\* the classes of event handler
HandlerClasses == {"AuditLogEventHandler", "LicenseCacheInvalidationHandler",
                   "WebhookEventHandler"}

WebhookIds == {"W1", "W2"}
\* the rows of webhook_configs in the order a query returns them
WebhookOrder == <<"W1", "W2">>

\* WebhookEventHandler.handle: event_type_map, from event class to the name of
\* the webhook event
event_type_map(event_type) ==
    CASE event_type = "LicenseKeyCreated"  -> "license_key.created"
      [] event_type = "LicenseProvisioned" -> "license.provisioned"
      [] event_type = "LicenseRenewed"     -> "license.renewed"
      [] event_type = "LicenseSuspended"   -> "license.suspended"
      [] event_type = "LicenseResumed"     -> "license.resumed"
      [] event_type = "LicenseCancelled"   -> "license.cancelled"
      [] event_type = "LicenseActivated"   -> "license.activated"
      [] event_type = "SeatDeactivated"    -> "license.seat_deactivated"

\* getattr(event, "brand_id", None): LicenseKeyCreated is the one event class
\* that has the attribute, the brand the key was created for
getattr_brand_id(event) ==
    IF event.event_type = "LicenseKeyCreated"
    THEN LET rows == {k \in license_keys : k.id = event.license_key_id}
         IN IF rows = {} THEN None ELSE Some((CHOOSE k \in rows : TRUE).brand_id)
    ELSE None

\* the message deliver_webhook_task.delay puts on the task queue
deliver_webhook_task_delay(webhook_config_id, event_type) ==
    [webhook_config_id |-> webhook_config_id, event_type |-> event_type, retries |-> 0]

\* WebhookDeliveryService.deliver_webhooks_for_event: one task per active
\* webhook config of the brand, whatever events the config lists
deliver_webhooks_for_event(brand_id, event_type) ==
    LET ids == SelectSeq(WebhookOrder,
                   LAMBDA id : \E c \in webhook_configs :
                                  c.id = id /\ c.brand_id = brand_id /\ c.is_active)
    IN [i \in 1..Len(ids) |-> deliver_webhook_task_delay(ids[i], event_type)]

\* WebhookEventHandler.handle: the tasks it puts on the queue for an event
WebhookEventHandler_handle(event) ==
    IF getattr_brand_id(event) = None
    THEN <<>>
    ELSE deliver_webhooks_for_event(getattr_brand_id(event)[1],
                                    event_type_map(event.event_type))

\* LicenseCacheInvalidationHandler.handle: the license key of the event, named
\* by the event or found through its license, and the delete of its cache entry
LicenseCacheInvalidationHandler_handle(c, event) ==
    IF event.event_type \in {"LicenseKeyCreated", "LicenseProvisioned"}
    THEN IF \E k \in license_keys : k.id = event.license_key_id
         THEN invalidate_license_status(c, event.license_key_id)
         ELSE c
    ELSE IF event.license_id \in DOMAIN licenses
         THEN invalidate_for_license(c, licenses[event.license_id])
         ELSE c

\* register_event_handlers: the subscriptions made at start-up
register_event_handlers ==
    [t \in EventTypes |->
        IF t \in {"LicenseRenewed", "LicenseSuspended", "LicenseResumed",
                  "LicenseCancelled", "LicenseActivated", "SeatDeactivated"}
        THEN <<"AuditLogEventHandler", "LicenseCacheInvalidationHandler">>
        ELSE <<"AuditLogEventHandler">>]

\* can handler.handle end by raising?  LicenseCacheInvalidationHandler catches
\* what its body raises
may_raise(handler) == handler # "LicenseCacheInvalidationHandler"

\* the event bus between two publications
IdleEventBus(handlers) ==
    [_handlers |-> handlers, pc |-> "idle", event |-> None, tasks |-> <<>>]

\* the task queue with no task waiting or running and no HTTP post made yet
IdleCelery ==
    [queue |-> <<>>, task |-> None, posts |-> [id \in WebhookIds |-> 0], ended |-> {}]

\* the broker with no event published: the queue of events, the ids of the
\* messages acknowledged, the process_event_from_rabbitmq tasks sent and the
\* ids of the messages whose task failed
IdleRabbitMQ ==
    [queue |-> <<>>, published |-> 0, acked |-> {}, tasks |-> <<>>, failed |-> {}]

\* the state of event delivery before anything was published: the bus with the
\* start-up subscriptions, no webhook config, no task, no message
InitMessaging ==
    /\ event_bus = IdleEventBus(register_event_handlers)
    /\ webhook_configs = {}
    /\ celery = IdleCelery
    /\ rabbitmq = IdleRabbitMQ

\* InMemoryEventBus.subscribe: the handler is appended to the list of the type
subscribe(event_type, handler) ==
    /\ event_bus.pc # "gather"
    /\ Len(event_bus._handlers[event_type]) < MaxHandlers
    /\ event_bus' = [event_bus EXCEPT !._handlers[event_type] = Append(@, handler)]
    /\ UNCHANGED <<licenses, license_keys, cache, activations, now, req, started,
                   handled, serial, webhook_configs, celery, rabbitmq>>

\* InMemoryEventBus.publish up to the await: no handler, return at once;
\* otherwise one _handle_event coroutine per handler of the event's class
publish(event) ==
    /\ event_bus.pc # "gather"
    /\ Len(celery.queue) < MaxQueued
    /\ LET handlers == event_bus._handlers[event.event_type]
       IN event_bus' = [event_bus EXCEPT
             !.event = Some(event),
             !.tasks = [i \in 1..Len(handlers) |->
                          [handler |-> handlers[i], state |-> "pending"]],
             !.pc = IF handlers = <<>> THEN "returned" ELSE "gather"]
    /\ UNCHANGED <<licenses, license_keys, cache, activations, now, req, started,
                   handled, serial, webhook_configs, celery, rabbitmq>>

\* asyncio starts one of the coroutines gathered
HandleEventStart(i) ==
    /\ event_bus.pc = "gather"
    /\ i \in DOMAIN event_bus.tasks
    /\ event_bus.tasks[i].state = "pending"
    /\ event_bus' = [event_bus EXCEPT !.tasks[i].state = "running"]
    /\ UNCHANGED <<licenses, license_keys, cache, activations, now, req, started,
                   handled, serial, webhook_configs, celery, rabbitmq>>

\* InMemoryEventBus._handle_event: handler.handle(event) runs to its end, or
\* raises and the exception is logged and raised again
_handle_event(i, raises) ==
    /\ i \in DOMAIN event_bus.tasks
    /\ event_bus.tasks[i].state = "running"
    /\ raises => may_raise(event_bus.tasks[i].handler)
    /\ event_bus' = [event_bus EXCEPT
          !.tasks[i].state = IF raises THEN "raised" ELSE "returned"]
    /\ LET handler == event_bus.tasks[i].handler
           event == event_bus.event[1]
       IN /\ cache' = IF ~ raises /\ handler = "LicenseCacheInvalidationHandler"
                      THEN LicenseCacheInvalidationHandler_handle(cache, event)
                      ELSE cache
          /\ celery' = IF ~ raises /\ handler = "WebhookEventHandler"
                       THEN [celery EXCEPT !.queue = @ \o WebhookEventHandler_handle(event)]
                       ELSE celery
    /\ UNCHANGED <<licenses, license_keys, activations, now, req, started,
                   handled, serial, webhook_configs, rabbitmq>>

\* asyncio.gather over the states of the coroutines: is the await over, and
\* does it raise?  Without return_exceptions the first exception ends it
gather(tasks, return_exceptions) ==
    LET finished == \A i \in DOMAIN tasks : tasks[i].state \in {"returned", "raised"}
        failed == \E i \in DOMAIN tasks : tasks[i].state = "raised"
    IN IF return_exceptions
       THEN [over |-> finished, raises |-> FALSE]
       ELSE [over |-> finished \/ failed, raises |-> failed]

publish_gather_propagating(tasks) == gather(tasks, FALSE)

\* InMemoryEventBus.publish: await asyncio.gather(*tasks, return_exceptions=True)
publish_gather(tasks) == gather(tasks, TRUE)

\* the await of publish ends, and publish returns or raises to its caller
PublishReturn ==
    /\ event_bus.pc = "gather"
    /\ publish_gather(event_bus.tasks).over
    /\ event_bus' = [event_bus EXCEPT
          !.pc = IF publish_gather(event_bus.tasks).raises THEN "raised" ELSE "returned"]
    /\ UNCHANGED <<licenses, license_keys, cache, activations, now, req, started,
                   handled, serial, webhook_configs, celery, rabbitmq>>

(* --------------------------- webhook delivery ------------------------- *)

\* deliver_webhook_task: @app.task(bind=True, max_retries=3)
TASK_MAX_RETRIES == 3

\* the row of a webhook config
WebhookConfig_get(webhook_config_id) ==
    CHOOSE c \in webhook_configs : c.id = webhook_config_id

\* self.retry of the task: the message goes back to the queue with one more
\* retry counted, unless that exceeds the task's max_retries: then the
\* exception is raised and the task has failed for good
retry(c, message) ==
    IF message.retries + 1 > TASK_MAX_RETRIES
    THEN [c EXCEPT !.task = None,
                   !.ended = @ \cup {[webhook_config_id |-> message.webhook_config_id,
                                      outcome |-> "failed"]}]
    ELSE [c EXCEPT !.task = None,
                   !.queue = Append(@, [message EXCEPT !.retries = @ + 1])]

\* a worker takes the next deliver_webhook_task and calls deliver_webhook with
\* retry_count 0: for an inactive config or one that does not list the event
\* it returns False without a post, and the task raises and is retried
deliver_webhook_task ==
    /\ celery.task = None
    /\ celery.queue # <<>>
    /\ LET message == Head(celery.queue)
           config == WebhookConfig_get(message.webhook_config_id)
           taken == [celery EXCEPT !.queue = Tail(@)]
       IN celery' = IF ~ config.is_active \/ message.event_type \notin config.events
                    THEN retry(taken, message)
                    ELSE [taken EXCEPT !.task = Some([message |-> message,
                                                      retry_count |-> 0])]
    /\ UNCHANGED <<licenses, license_keys, cache, activations, now, req, started,
                   handled, serial, event_bus, webhook_configs, rabbitmq>>

\* WebhookDeliveryService.deliver_webhook from requests.post on: a 2xx answer
\* ends the delivery; an error answer or a timeout is retried in the same call
\* while retry_count < max_retries, and after that the call returns False, the
\* task raises and asks Celery for a retry
deliver_webhook(ok) ==
    /\ celery.task # None
    /\ LET message == celery.task[1].message
           retry_count == celery.task[1].retry_count
           config == WebhookConfig_get(message.webhook_config_id)
           posted == [celery EXCEPT !.posts[config.id] = @ + 1]
       IN celery' =
            IF ok
            THEN [posted EXCEPT !.task = None,
                                !.ended = @ \cup {[webhook_config_id |-> config.id,
                                                   outcome |-> "delivered"]}]
            ELSE IF retry_count < config.max_retries
                 THEN [posted EXCEPT !.task[1].retry_count = @ + 1]
                 ELSE retry(posted, message)
    /\ UNCHANGED <<licenses, license_keys, cache, activations, now, req, started,
                   handled, serial, event_bus, webhook_configs, rabbitmq>>

(* ------------------------- broker-backed event bus -------------------- *)

\* RabbitMQEventBus.publish: the serialized event goes to the exchange and, by
\* the routing key event.*, into the queue of the consumer
RabbitMQ_publish(event) ==
    /\ rabbitmq.published < MaxMessages
    /\ rabbitmq' = [rabbitmq EXCEPT
          !.published = @ + 1,
          !.queue = Append(@, [id |-> rabbitmq.published + 1,
                               body |-> [event_type |-> event.event_type,
                                         data |-> event]])]
    /\ UNCHANGED <<licenses, license_keys, cache, activations, now, req, started,
                   handled, serial, event_bus, webhook_configs, celery>>

\* RabbitMQEventBus._handle_message: the body is sent on as a Celery task and
\* the message is acknowledged; only if that raises (sent = FALSE) is the
\* message rejected with requeue and stays in the queue
_handle_message(sent) ==
    /\ rabbitmq.queue # <<>>
    /\ LET message == Head(rabbitmq.queue)
       IN rabbitmq' = IF sent
                      THEN [rabbitmq EXCEPT !.tasks = Append(@, message),
                                            !.acked = @ \cup {message.id},
                                            !.queue = Tail(@)]
                      ELSE rabbitmq
    /\ UNCHANGED <<licenses, license_keys, cache, activations, now, req, started,
                   handled, serial, event_bus, webhook_configs, celery>>

\* the task process_event_from_rabbitmq: its first statement imports
\* WebhookEventHandler from core.infrastructure.event_handlers, which defines
\* no such name, so the task ends with ImportError before a handler runs; the
\* task has no retry and the message it came from is not touched again
process_event_from_rabbitmq ==
    /\ rabbitmq.tasks # <<>>
    /\ rabbitmq' = [rabbitmq EXCEPT !.tasks = Tail(@),
                                    !.failed = @ \cup {Head(rabbitmq.tasks).id}]
    /\ UNCHANGED <<licenses, license_keys, cache, activations, now, req, started,
                   handled, serial, event_bus, webhook_configs, celery>>

(* ------------------------------- Init --------------------------------- *)

\* The state after one provision request for both products: one license key,
\* one valid license per product, all with the requested max_seats and
\* expiration date, and no activation.  Here the request names no expiration
\* date: the clock stands still while requests run concurrently.
Init ==
    /\ \E seats \in 1..MaxSeatLimit :
          licenses = [id \in LicenseIds |->
                        [id |-> id,
                         license_key_id |-> "K1",
                         product_id |-> IF id = "L1" THEN "P1" ELSE "P2",
                         status |-> "valid",
                         seat_limit |-> seats,
                         expires_at |-> None]]
    /\ license_keys = {[id |-> "K1", brand_id |-> "B1"]}
    /\ cache = [k \in {} |-> None]
    /\ activations = {}
    /\ now = 0
    /\ req = [w \in Workers |-> IdleRequest]
    /\ started = 0
    /\ handled = [k \in DOMAIN ApiKeyModels |-> 0]
    /\ InitMessaging
    /\ serial = FALSE

\* The same with any expiration date, for the runs in which the clock ticks
InitSerial ==
    /\ \E seats \in 1..MaxSeatLimit, exp \in {None} \cup {Some(t) : t \in 0..MaxTime} :
          licenses = [id \in LicenseIds |->
                        [id |-> id,
                         license_key_id |-> "K1",
                         product_id |-> IF id = "L1" THEN "P1" ELSE "P2",
                         status |-> "valid",
                         seat_limit |-> seats,
                         expires_at |-> exp]]
    /\ license_keys = {[id |-> "K1", brand_id |-> "B1"]}
    /\ cache = [k \in {} |-> None]
    /\ activations = {}
    /\ now = 0
    /\ req = [w \in Workers |-> IdleRequest]
    /\ started = 0
    /\ handled = [k \in DOMAIN ApiKeyModels |-> 0]
    /\ InitMessaging
    /\ serial = TRUE


(* ----------------------- activate (product API) ----------------------- *)

\* ActivateLicenseHandler.handle up to the license lookup, then the validity
\* check of SeatManager.can_activate, which runs before the next query
ActivateFindLicense(w, license_key, product, instance_identifier, instance_metadata) ==
    /\ CanStart(w)
    /\ LET found == find_by_license_key_and_product(license_key, product)
           r == [IdleRequest EXCEPT !.op = "activate",
                                     !.license_key = license_key, !.product = product,
                                     !.instance_identifier = instance_identifier,
                                     !.instance_metadata = instance_metadata,
                                     !.pre = Snapshot]
       IN IF found = {}
          THEN req' = [req EXCEPT ![w] =
                          Finish(r, custom_exception_handler("LicenseNotFoundError"))]
          ELSE LET license == licenses[CHOOSE id \in found : TRUE]
                   error == validity_error(license, now)
               IN req' = [req EXCEPT ![w] =
                     IF error # ""
                     THEN Finish([r EXCEPT !.license_id = license.id],
                                 custom_exception_handler(activation_exception(error)))
                     ELSE [r EXCEPT !.license_id = license.id,
                                    !.license = Some(license),
                                    !.pc = "can_activate"]]
    /\ started' = started + 1
    /\ UNCHANGED <<licenses, activations, now, serial, license_keys, cache, handled, messaging>>

\* SeatManager.can_activate: is the instance already activated?
CanActivate(w) ==
    /\ req[w].pc = "can_activate"
    /\ LET r == req[w]
           existing == find_by_license_and_instance(r.license_id, r.instance_identifier)
       IN req' = [req EXCEPT ![w] =
             IF \E a \in existing : a.is_active
             THEN Finish(r, custom_exception_handler(
                               activation_exception("Instance already activated")))
             ELSE [r EXCEPT !.pc = "has_available_seats"]]
    /\ UNCHANGED <<licenses, activations, now, started, serial, license_keys, cache, handled, messaging>>

\* SeatManager.can_activate: the seat count against the limit of the license as read
HasAvailableSeats(w) ==
    /\ req[w].pc = "has_available_seats"
    /\ LET r == req[w]
           active_count == count_active_seats(r.license_id)
       IN req' = [req EXCEPT ![w] =
             IF ~has_available_seats(active_count, r.license[1].seat_limit)
             THEN Finish(r, custom_exception_handler(
                               activation_exception("License seat limit exceeded")))
             ELSE [r EXCEPT !.pc = "find_existing"]]
    /\ UNCHANGED <<licenses, activations, now, started, serial, license_keys, cache, handled, messaging>>

\* SeatManager.activate_license: the second lookup; reactivate the row found or
\* create a new activation
FindExisting(w) ==
    /\ req[w].pc = "find_existing"
    /\ LET r == req[w]
           existing == find_by_license_and_instance(r.license_id, r.instance_identifier)
       IN req' = [req EXCEPT ![w] =
             IF existing # {}
             THEN LET e == CHOOSE a \in existing : TRUE
                  IN IF e.is_active
                     THEN Finish(r, custom_exception_handler("InvalidLicenseStatusError"))
                     ELSE [r EXCEPT !.existing = Some(e),
                                    !.activation = Some(
                                        IF r.instance_metadata # "none"
                                        THEN [reactivate(e, now) EXCEPT
                                                 !.instance_metadata = r.instance_metadata]
                                        ELSE reactivate(e, now)),
                                    !.pc = "to_model"]
             ELSE [r EXCEPT !.activation = Some(
                                Activation_create(uuid4, r.license_id,
                                                  r.instance_identifier,
                                                  r.instance_metadata, now)),
                            !.pc = "to_model"]]
    /\ UNCHANGED <<licenses, activations, now, started, serial, license_keys, cache, handled, messaging>>

(* ------------------- DjangoActivationRepository.save ------------------ *)

unique_together_unchecked(license_id, instance_identifier, id) ==
    FALSE

\* unique_together (license, instance_identifier): does another row hold the pair?
unique_together_violated(license_id, instance_identifier, id) ==
    \E a \in activations : /\ a.license_id = license_id
                           /\ a.instance_identifier = instance_identifier
                           /\ a.id # id

\* _to_model: get_or_create by id.  A row found is loaded and takes the entity's
\* instance_identifier, instance_metadata, deactivated_at and is_active (not its
\* activated_at); otherwise the row is inserted, which the unique constraint may
\* refuse with an IntegrityError that nothing catches.
ToModel(w) ==
    /\ req[w].pc = "to_model"
    /\ LET r == req[w]
           activation == r.activation[1]
           rows == find_by_id(activation.id)
       IN IF rows # {}
          THEN LET row == CHOOSE a \in rows : TRUE
               IN /\ req' = [req EXCEPT ![w] =
                        [r EXCEPT !.model = Some(
                                      [row EXCEPT
                                         !.instance_identifier = activation.instance_identifier,
                                         !.instance_metadata = activation.instance_metadata,
                                         !.deactivated_at = activation.deactivated_at,
                                         !.is_active = activation.is_active]),
                                  !.pc = "model_save"]]
                  /\ UNCHANGED activations
          ELSE IF unique_together_violated(activation.license_id,
                                           activation.instance_identifier, activation.id)
               THEN /\ req' = [req EXCEPT ![w] =
                                  Finish(r, custom_exception_handler("IntegrityError"))]
                    /\ UNCHANGED activations
               ELSE LET row == [activation EXCEPT !.activated_at = now]
                    IN /\ activations' = activations \cup {row}
                       /\ req' = [req EXCEPT ![w] =
                             [r EXCEPT !.model = Some(row), !.created = TRUE,
                                       !.pc = "model_save"]]
    /\ UNCHANGED <<licenses, now, started, serial, license_keys, cache, handled, messaging>>

\* model.save(): full_clean (validate_unique raises a ValidationError that nothing
\* catches), then the UPDATE of the whole row; then the handler publishes
\* LicenseActivated or SeatDeactivated, the cache entry of the license's key is
\* deleted (by the event's subscriber, and by the activate handler itself), and
\* the view responds
ModelSave(w) ==
    /\ req[w].pc = "model_save"
    /\ LET r == req[w]
           model == r.model[1]
       IN IF unique_together_violated(model.license_id, model.instance_identifier, model.id)
          THEN /\ req' = [req EXCEPT ![w] =
                            Finish(r, custom_exception_handler("ValidationError"))]
               /\ UNCHANGED activations
               /\ UNCHANGED cache
          ELSE /\ activations' = {a \in activations : a.id # model.id} \cup {model}
               /\ cache' = invalidate_for_license(cache, licenses[model.license_id])
               /\ req' = [req EXCEPT ![w] =
                     Finish([r EXCEPT !.events = Append(@, DomainEvent(
                                 IF r.op = "activate" THEN "LicenseActivated"
                                 ELSE "SeatDeactivated",
                                 model.id, model.license_id, ""))],
                            IF r.op = "activate" THEN Response(201, "")
                            ELSE Response(200, ""))]
    /\ UNCHANGED <<licenses, now, started, serial, license_keys, handled, messaging>>


(* ---------------------- deactivate (product API) ---------------------- *)

\* LicenseRepository.find_by_license_key, in the repository's order
find_by_license_key(license_key) ==
    SelectSeq(LicenseOrder, LAMBDA id : licenses[id].license_key_id = license_key)

license_key_mismatch_never(license, license_key) == FALSE

\* does the license of the activation belong to another key than the one the
\* request authenticated with?
license_key_mismatch(license, license_key) == license.license_key_id # license_key

\* DeactivateSeatView: the activation by id (404), its license's key against the
\* authenticating key (403); the command carries the instance identifier
DeactivateSeatView(w, license_key, activation_id) ==
    /\ CanStart(w)
    /\ LET rows == find_by_id(activation_id)
           r == [IdleRequest EXCEPT !.op = "deactivate",
                                     !.license_key = license_key,
                                     !.activation_id = activation_id,
                                     !.pre = Snapshot]
       IN req' = [req EXCEPT ![w] =
             IF rows = {}
             THEN Finish(r, Response(404, "ACTIVATION_NOT_FOUND"))
             ELSE LET a == CHOOSE x \in rows : TRUE
                  IN IF license_key_mismatch(licenses[a.license_id], license_key)
                     THEN Finish(r, Response(403, "FORBIDDEN"))
                     ELSE [r EXCEPT !.instance_identifier = a.instance_identifier,
                                    !.idx = 1,
                                    !.pc = "find_activation"]]
    /\ started' = started + 1
    /\ UNCHANGED <<licenses, activations, now, serial, license_keys, cache, handled, messaging>>

\* DeactivateSeatHandler.handle: one turn of the loop over the key's licenses,
\* looking the activation up by (license, instance); on the first one found,
\* SeatManager.deactivate_seat deactivates the entity and saves it
FindActivation(w) ==
    /\ req[w].pc = "find_activation"
    /\ LET r == req[w]
           key_licenses == find_by_license_key(r.license_key)
       IN req' = [req EXCEPT ![w] =
             IF r.idx > Len(key_licenses)
             THEN Finish(r, custom_exception_handler("ActivationNotFoundError"))
             ELSE LET rows == find_by_license_and_instance(key_licenses[r.idx],
                                                           r.instance_identifier)
                  IN IF rows = {}
                     THEN [r EXCEPT !.idx = r.idx + 1]
                     ELSE LET e == CHOOSE a \in rows : TRUE
                          IN [r EXCEPT !.license_id = e.license_id,
                                       !.existing = Some(e),
                                       !.activation = Some(deactivate(e, now)),
                                       !.pc = "to_model"]]
    /\ UNCHANGED <<licenses, activations, now, started, serial, license_keys, cache, handled, messaging>>

(* ------------------------ status (product API) ------------------------ *)

RECURSIVE SumSeq(_)
SumSeq(seq) == IF seq = << >> THEN 0 ELSE Head(seq) + SumSeq(Tail(seq))

Max(a, b) == IF a >= b THEN a ELSE b

LicenseDTO_all_activations(license) ==
    LET seats_used == Cardinality({a \in activations : a.license_id = license.id})
    IN [id |-> license.id,
        product_id |-> license.product_id,
        status |-> license.status,
        seat_limit |-> license.seat_limit,
        seats_used |-> seats_used,
        seats_remaining |-> Max(0, license.seat_limit - seats_used),
        expires_at |-> license.expires_at]

\* the LicenseDTO the status handler builds for one license
LicenseDTO(license) ==
    LET seats_used == Cardinality(find_active_by_license(license.id))
    IN [id |-> license.id,
        product_id |-> license.product_id,
        status |-> license.status,
        seat_limit |-> license.seat_limit,
        seats_used |-> seats_used,
        seats_remaining |-> Max(0, license.seat_limit - seats_used),
        expires_at |-> license.expires_at]

\* the LicenseStatusDTO built from the database: the loop over the licenses
\* of the key
LicenseStatusDTO(license_key, current_time) ==
    LET ids == find_by_license_key(license_key)
        license_dtos == [i \in 1..Len(ids) |-> LicenseDTO(licenses[ids[i]])]
        overall_valid == \E i \in 1..Len(ids) : is_valid(licenses[ids[i]], current_time)
    IN [license_key |-> license_key,
        status |-> IF overall_valid THEN "valid" ELSE "invalid",
        is_valid |-> overall_valid,
        licenses |-> license_dtos,
        total_seats_used |->
           SumSeq([i \in 1..Len(ids) |-> license_dtos[i].seats_used]),
        total_seats_available |->
           SumSeq([i \in 1..Len(ids) |-> license_dtos[i].seats_remaining])]

\* GetLicenseStatusHandler.handle, the cache lookup: a hit is the answer
GetLicenseStatus(w, license_key) ==
    /\ CanStart(w)
    /\ LET r == [IdleRequest EXCEPT !.op = "status",
                                     !.license_key = license_key,
                                     !.pre = Snapshot]
           cached_status == cache_get(cache, license_key, now)
       IN req' = [req EXCEPT ![w] =
             IF cached_status # None
             THEN Finish([r EXCEPT !.body = cached_status], Response(200, ""))
             ELSE [r EXCEPT !.pc = "status_read"]]
    /\ started' = started + 1
    /\ UNCHANGED <<licenses, activations, now, serial, license_keys, cache, handled, messaging>>

\* after a miss: the license key row (InvalidLicenseKeyError if there is none),
\* its licenses and their active activations
StatusRead(w) ==
    /\ req[w].pc = "status_read"
    /\ LET r == req[w]
       IN req' = [req EXCEPT ![w] =
             IF ~ \E k \in license_keys : k.id = r.license_key
             THEN Finish(r, custom_exception_handler("InvalidLicenseKeyError"))
             ELSE [r EXCEPT !.body = Some(LicenseStatusDTO(r.license_key, now)),
                            !.pc = "status_cache_set"]]
    /\ UNCHANGED <<licenses, activations, now, started, serial, license_keys, cache, handled, messaging>>

\* LicenseCacheService.set_license_status with the result, which is the answer
StatusCacheSet(w) ==
    /\ req[w].pc = "status_cache_set"
    /\ LET r == req[w]
       IN /\ cache' = cache_set(cache, r.license_key, r.body[1], now)
          /\ req' = [req EXCEPT ![w] = Finish(r, Response(200, ""))]
    /\ UNCHANGED <<licenses, activations, now, started, serial, license_keys, handled, messaging>>

(* ------------------------ lifecycle (brand API) ----------------------- *)

LifecycleOps == {"renew", "suspend", "resume", "cancel"}

\* the License method each handler's LicenseLifecycleManager call applies
Apply(op, license, new_expiration, current_time) ==
    CASE op = "renew" -> renew(license, new_expiration, current_time)
      [] op = "suspend" -> suspend(license)
      [] op = "resume" -> resume(license)
      [] op = "cancel" -> cancel(license)

\* A lifecycle view for a request the middleware let pass with this API key
\* (the view reads request.brand for its trace only), and
\* Renew/Suspend/Resume/CancelLicenseHandler.handle: find_by_id, then the domain
\* method on the entity read; what it raises reaches the view's except clauses
LifecycleHandle(w, api_key, op, license_id, new_expiration) ==
    /\ ~ RateLimitInstalled
    /\ authenticate_brand_api(api_key, now) = 0
    /\ handled' = [handled EXCEPT ![api_key] = @ + 1]
    /\ LET r ==[IdleRequest EXCEPT !.op = op,
                                     !.api_key = api_key,
                                     !.brand_id = ApiKeyModels[api_key].brand_id,
                                     !.license_id = license_id,
                                     !.new_expiration = new_expiration,
                                     !.pre = Snapshot]
           result == Apply(op, licenses[license_id], new_expiration, now)
       IN req' = [req EXCEPT ![w] =
             IF result.ok
             THEN [r EXCEPT !.license = Some(result.license), !.pc = "license_save"]
             ELSE Finish(r, brand_view_except(result.error))]
    /\ started' = started + 1
    /\ UNCHANGED <<licenses, activations, now, serial, license_keys, cache, messaging>>

\* a lifecycle request within the budget of requests
LifecycleFind(w, api_key, op, license_id, new_expiration) ==
    /\ CanStart(w)
    /\ LifecycleHandle(w, api_key, op, license_id, new_expiration)

\* a lifecycle request of a client that keeps sending: the budget is one
\* request more than the default limit of a window
BrandRequest(w, api_key, op, license_id, new_expiration) ==
    /\ Free(w)
    /\ serial => w = "w1"
    /\ started <= DEFAULT_RATE_LIMIT
    /\ LifecycleHandle(w, api_key, op, license_id, new_expiration)

\* the event each lifecycle handler publishes
LifecycleEvent(op) ==
    CASE op = "renew" -> "LicenseRenewed"
      [] op = "suspend" -> "LicenseSuspended"
      [] op = "resume" -> "LicenseResumed"
      [] op = "cancel" -> "LicenseCancelled"

LicenseSave_publish_only(w) ==
    /\ req[w].pc = "license_save"
    /\ LET r == req[w]
           license == r.license[1]
       IN req' = [req EXCEPT ![w] =
             Finish([r EXCEPT !.events = Append(@, DomainEvent(
                         LifecycleEvent(r.op), license.id, license.id, ""))],
                    Response(200, ""))]
    /\ UNCHANGED <<licenses, cache, activations, now, started, serial, license_keys, handled, messaging>>

\* DjangoLicenseRepository.save: the row takes the entity's status, seat_limit
\* and expires_at; then the handler deletes the cache entry of the license's
\* key and publishes its event
LicenseSave(w) ==
    /\ req[w].pc = "license_save"
    /\ LET r == req[w]
           license == r.license[1]
       IN /\ licenses' = [licenses EXCEPT ![license.id] =
                            [@ EXCEPT !.status = license.status,
                                      !.seat_limit = license.seat_limit,
                                      !.expires_at = license.expires_at]]
          /\ cache' = invalidate_for_license(cache, license)
          /\ req' = [req EXCEPT ![w] =
                Finish([r EXCEPT !.events = Append(@, DomainEvent(
                            LifecycleEvent(r.op), license.id, license.id, ""))],
                       Response(200, ""))]
    /\ UNCHANGED <<activations, now, started, serial, license_keys, handled, messaging>>

(* -------------------------- expiration sweep -------------------------- *)

expired_licenses_queryset_any_status(license, current_time) ==
    license.expires_at # None /\ license.expires_at[1] < current_time

\* LicenseModel.objects.filter(status="valid", expires_at__lt=now), for one row
expired_licenses_queryset(license, current_time) ==
    /\ license.status = "valid"
    /\ license.expires_at # None
    /\ license.expires_at[1] < current_time

\* check_license_expirations: the licenses with status valid and expires_at < now
SweepSelect(w) ==
    /\ CanStart(w)
    /\ LET expired == SelectSeq(LicenseOrder,
                         LAMBDA id : expired_licenses_queryset(licenses[id], now))
           r == [IdleRequest EXCEPT !.op = "sweep", !.pre = Snapshot]
       IN req' = [req EXCEPT ![w] =
             IF expired = << >>
             THEN Finish(r, Response(200, ""))
             ELSE [r EXCEPT !.queue = [i \in 1..Len(expired) |-> licenses[expired[i]]],
                            !.pc = "sweep_save"]]
    /\ started' = started + 1
    /\ UNCHANGED <<licenses, activations, now, serial, license_keys, cache, handled, messaging>>

\* mark_expired on the next license as it was selected, and its save
SweepSave(w) ==
    /\ req[w].pc = "sweep_save"
    /\ LET r == req[w]
           license == mark_expired(Head(r.queue))
       IN /\ licenses' = [licenses EXCEPT ![license.id] =
                            [@ EXCEPT !.status = license.status,
                                      !.seat_limit = license.seat_limit,
                                      !.expires_at = license.expires_at]]
          /\ req' = [req EXCEPT ![w] =
                IF Tail(r.queue) = << >>
                THEN Finish([r EXCEPT !.queue = << >>], Response(200, ""))
                ELSE [r EXCEPT !.queue = Tail(r.queue)]]
    /\ UNCHANGED <<activations, now, started, serial, license_keys, cache, handled, messaging>>

(* ------------------------ provision (brand API) ----------------------- *)

Brands == {"B1", "B2"}

\* table products: P1 and P2 belong to brand B1, P3 to brand B2
ProductModels ==
    [id \in Products \cup {"P3"} |->
        [id |-> id, brand_id |-> IF id = "P3" THEN "B2" ELSE "B1"]]

\* product ids a request may list: "P0" is the id of no product
ProductIds == {"P1", "P3", "P0"}

\* ProvisionLicenseRequestSerializer.products: a list of ids, at least one,
\* repetitions allowed
ProductLists == UNION {[1..n -> ProductIds] : n \in 1..MaxProducts}

\* ProductRepository.find_by_id
product_find_by_id(product_id) ==
    IF product_id \in DOMAIN ProductModels THEN Some(ProductModels[product_id]) ELSE None

product_error_no_owner_check(product, brand_id) ==
    IF product = None THEN "DomainException" ELSE ""

\* the two checks on the product found: the exception class raised, "" if none
product_error(product, brand_id) ==
    IF product = None THEN "DomainException"
    ELSE IF product[1].brand_id # brand_id THEN "DomainException"
    ELSE ""

\* LicenseKey.create (the key string and the customer email are not modelled)
LicenseKey_create(id, brand_id) == [id |-> id, brand_id |-> brand_id]

\* License.create
License_create(id, license_key_id, product_id, seat_limit, expires_at) ==
    [id |-> id,
     license_key_id |-> license_key_id,
     product_id |-> product_id,
     status |-> "valid",
     seat_limit |-> seat_limit,
     expires_at |-> expires_at]

\* uuid.uuid4() for a license key and for a license
license_key_uuid4 == "K" \o ToString(Cardinality(license_keys) + 1)

license_uuid4 == "L" \o ToString(Cardinality(DOMAIN licenses) + 1)

\* values of the Idempotency-Key header: "" when the request carries none
IdempotencyKeys == {"", "idem1"}

\* ProvisionLicenseView.post with valid data and ProvisionLicenseHandler.handle
\* up to the brand lookup; the brand is the one the API key authenticated, which
\* find_by_id finds.  The request may carry an Idempotency-Key header: no
\* middleware and no view reads it, and no code reads or writes the
\* idempotency_keys table, so the header is kept with the request only.
ProvisionLicense(w, brand_id, products, max_seats, expiration_date, idempotency_key) ==
    /\ CanStart(w)
    /\ brand_id \in Brands
    /\ ~ RateLimitInstalled
    /\ handled' = [handled EXCEPT ![ApiKeyOf(brand_id)] = @ + 1]
    /\ req' = [req EXCEPT ![w] =
          [IdleRequest EXCEPT !.op = "provision",
                              !.brand_id = brand_id,
                              !.products = products,
                              !.queue = products,
                              !.max_seats = max_seats,
                              !.expiration_date = expiration_date,
                              !.idempotency_key = idempotency_key,
                              !.pre = Snapshot,
                              !.pc = "license_key_save"]]
    /\ started' = started + 1
    /\ UNCHANGED <<licenses, activations, now, serial, license_keys, cache, messaging>>

\* LicenseKey.create and license_key_repository.save: the key row is stored
\* at once, before any product is looked at, and LicenseKeyCreated is published
SaveLicenseKey(w) ==
    /\ req[w].pc = "license_key_save"
    /\ LET r == req[w]
           license_key == LicenseKey_create(license_key_uuid4, r.brand_id)
       IN /\ license_keys' = license_keys \cup {license_key}
          /\ req' = [req EXCEPT ![w] =
                [r EXCEPT !.license_key = license_key.id,
                          !.events = Append(@, DomainEvent("LicenseKeyCreated",
                                                license_key.id, "", license_key.id)),
                          !.pc = "product_find"]]
    /\ UNCHANGED <<licenses, activations, now, started, serial, cache, handled, messaging>>

\* the loop over command.products, first half: find the next product and check
\* it; a DomainException ends the request with what was stored so far
FindProduct(w) ==
    /\ req[w].pc = "product_find"
    /\ LET r == req[w]
           product == product_find_by_id(Head(r.queue))
           error == product_error(product, r.brand_id)
       IN req' = [req EXCEPT ![w] =
             IF error # ""
             THEN Finish(r, brand_view_except(error))
             ELSE [r EXCEPT !.product = product[1].id, !.pc = "license_create"]]
    /\ UNCHANGED <<licenses, activations, now, started, serial, license_keys, cache, handled, messaging>>

\* second half: License.create and license_repository.save, which inserts a
\* row under the new id, and the LicenseProvisioned event; after the last
\* product the view answers 201
SaveLicense(w) ==
    /\ req[w].pc = "license_create"
    /\ LET r == req[w]
           license == License_create(license_uuid4, r.license_key, r.product,
                                     r.max_seats, r.expiration_date)
       IN /\ licenses' = licenses @@ (license.id :> license)
          /\ req' = [req EXCEPT ![w] =
                LET published == [r EXCEPT !.events = Append(@,
                                     DomainEvent("LicenseProvisioned", license.id,
                                                 license.id, r.license_key))]
                IN IF Tail(r.queue) = << >>
                   THEN Finish([published EXCEPT !.queue = << >>], Response(201, ""))
                   ELSE [published EXCEPT !.queue = Tail(r.queue), !.pc = "product_find"]]
    /\ UNCHANGED <<activations, now, started, serial, license_keys, cache, handled, messaging>>

(* ----------------------- requests the middleware ends ----------------- *)

\* the operations of the brand routes; every other one is a product route
BrandOps == LifecycleOps \cup {"provision"}

\* APIKeyAuthenticationMiddleware.process_request returning a response: the
\* view is not called
Unauthorized(w, op, credential) ==
    /\ CanStart(w)
    /\ LET status == IF op \in BrandOps THEN authenticate_brand_api(credential, now)
                     ELSE authenticate_product_api(credential)
           r == [IdleRequest EXCEPT !.op = op,
                                     !.api_key = IF op \in BrandOps THEN credential ELSE "",
                                     !.license_key = IF op \in BrandOps THEN "" ELSE credential,
                                     !.pre = Snapshot]
       IN /\ status # 0
          /\ req' = [req EXCEPT ![w] = Finish(r, Response(status, ""))]
    /\ started' = started + 1
    /\ UNCHANGED <<licenses, activations, now, serial, license_keys, cache, handled, messaging>>

(* ------------------------------- clock -------------------------------- *)

Tick ==
    /\ now < MaxTime
    /\ now' = now + 1
    /\ handled' = IF window_start(now + 1) = window_start(now) THEN handled
                  ELSE [k \in DOMAIN ApiKeyModels |-> 0]
    /\ UNCHANGED <<licenses, activations, req, started, serial, license_keys, cache, messaging>>

(* ---------------------------- specification --------------------------- *)

\* ids a deactivate request may name: those stored and one that is not
ActivationIds == 1..(Cardinality(activations) + 1)

\* the queries and writes that follow the start of an activate request
ActivateSteps(w) ==
    \/ CanActivate(w)
    \/ HasAvailableSeats(w)
    \/ FindExisting(w)
    \/ ToModel(w)
    \/ ModelSave(w)

\* the queries and writes that follow the start of an activate or deactivate
SeatSteps(w) ==
    \/ ActivateSteps(w)
    \/ FindActivation(w)

\* activate and deactivate requests served concurrently by the workers
Next ==
    \E w \in Workers :
       \/ \E p \in Products, i \in Instances : ActivateFindLicense(w, "K1", p, i, "none")
       \/ \E id \in ActivationIds : DeactivateSeatView(w, "K1", id)
       \/ SeatSteps(w)

Spec == Init /\ [][Next]_vars

\* activate and deactivate requests served one at a time while the clock runs
NextSerial ==
    \/ \E w \in Workers :
          \/ \E p \in Products, i \in Instances :
                ActivateFindLicense(w, "K1", p, i, "none")
          \/ \E id \in ActivationIds : DeactivateSeatView(w, "K1", id)
          \/ SeatSteps(w)
    \/ Tick

SpecSerial == InitSerial /\ [][NextSerial]_vars

\* lifecycle requests, the sweep and activate requests, served one at a time
\* while the clock runs
NextLifecycle ==
    \/ \E w \in Workers :
          \/ \E id \in LicenseIds :
                \/ \E e \in Times : LifecycleFind(w, "A1", "renew", id, e)
                \/ \E op \in LifecycleOps \ {"renew"} : LifecycleFind(w, "A1", op, id, 0)
          \/ LicenseSave(w)
          \/ SweepSelect(w)
          \/ SweepSave(w)
          \/ \E p \in Products : ActivateFindLicense(w, "K1", p, "i1", "none")
          \/ ActivateSteps(w)
    \/ Tick

SpecLifecycle == InitSerial /\ [][NextLifecycle]_vars

\* The provisioned state with any expiration date, for requests and sweep runs
\* served concurrently while the clock ticks
InitLifecycleRace ==
    /\ \E seats \in 1..MaxSeatLimit, exp \in {None} \cup {Some(t) : t \in 0..MaxTime} :
          licenses = [id \in LicenseIds |->
                        [id |-> id,
                         license_key_id |-> "K1",
                         product_id |-> IF id = "L1" THEN "P1" ELSE "P2",
                         status |-> "valid",
                         seat_limit |-> seats,
                         expires_at |-> exp]]
    /\ license_keys = {[id |-> "K1", brand_id |-> "B1"]}
    /\ cache = [k \in {} |-> None]
    /\ activations = {}
    /\ now = 0
    /\ req = [w \in Workers |-> IdleRequest]
    /\ started = 0
    /\ handled = [k \in DOMAIN ApiKeyModels |-> 0]
    /\ InitMessaging
    /\ serial = FALSE

\* lifecycle requests and sweep runs served concurrently by the workers
NextLifecycleRace ==
    \/ \E w \in Workers :
          \/ \E id \in LicenseIds :
                \/ \E e \in Times : LifecycleFind(w, "A1", "renew", id, e)
                \/ \E op \in LifecycleOps \ {"renew"} : LifecycleFind(w, "A1", op, id, 0)
          \/ LicenseSave(w)
          \/ SweepSelect(w)
          \/ SweepSave(w)
    \/ Tick

SpecLifecycleRace == InitLifecycleRace /\ [][NextLifecycleRace]_vars

\* The seats of the licenses as the status endpoint reports them: one worker
\* serves activate, deactivate and status requests.  At the start the second
\* license is valid, suspended or cancelled, and the cache is empty or holds
\* the status computed from the stored rows.
InitStatus ==
    /\ \E seats \in 1..MaxSeatLimit, status \in {"valid", "suspended", "cancelled"} :
          licenses = [id \in LicenseIds |->
                        [id |-> id,
                         license_key_id |-> "K1",
                         product_id |-> IF id = "L1" THEN "P1" ELSE "P2",
                         status |-> IF id = "L1" THEN "valid" ELSE status,
                         seat_limit |-> seats,
                         expires_at |-> None]]
    /\ license_keys = {[id |-> "K1", brand_id |-> "B1"]}
    /\ activations = {}
    /\ now = 0
    /\ cache \in {[k \in {} |-> None],
                  cache_set([k \in {} |-> None], "K1", LicenseStatusDTO("K1", 0), 0)}
    /\ req = [w \in Workers |-> IdleRequest]
    /\ started = 0
    /\ handled = [k \in DOMAIN ApiKeyModels |-> 0]
    /\ InitMessaging
    /\ serial = TRUE

StatusSteps(w) == StatusRead(w) \/ StatusCacheSet(w)

NextStatus ==
    \E w \in Workers :
       \/ \E k \in LicenseKeys, p \in Products, i \in Instances :
             ActivateFindLicense(w, k, p, i, "none")
       \/ \E k \in LicenseKeys, id \in ActivationIds : DeactivateSeatView(w, k, id)
       \/ SeatSteps(w)
       \/ \E k \in LicenseKeys : GetLicenseStatus(w, k)
       \/ StatusSteps(w)

SpecStatus == InitStatus /\ [][NextStatus]_vars

\* Status reads next to lifecycle changes, served by two workers at once; the
\* clock stands still
InitStatusRace ==
    /\ licenses = [id \in LicenseIds |->
                      [id |-> id,
                       license_key_id |-> "K1",
                       product_id |-> IF id = "L1" THEN "P1" ELSE "P2",
                       status |-> "valid",
                       seat_limit |-> 1,
                       expires_at |-> None]]
    /\ license_keys = {[id |-> "K1", brand_id |-> "B1"]}
    /\ cache = [k \in {} |-> None]
    /\ activations = {}
    /\ now = 0
    /\ req = [w \in Workers |-> IdleRequest]
    /\ started = 0
    /\ handled = [k \in DOMAIN ApiKeyModels |-> 0]
    /\ InitMessaging
    /\ serial = FALSE

NextStatusRace ==
    \E w \in Workers :
       \/ \E id \in LicenseIds :
             \/ \E e \in Times : LifecycleFind(w, "A1", "renew", id, e)
             \/ \E op \in LifecycleOps \ {"renew"} : LifecycleFind(w, "A1", op, id, 0)
       \/ LicenseSave(w)
       \/ \E k \in LicenseKeys : GetLicenseStatus(w, k)
       \/ StatusSteps(w)

SpecStatusRace == InitStatusRace /\ [][NextStatusRace]_vars

\* activate and deactivate requests of one instance served concurrently with
\* suspend, resume and cancel requests on the same license
NextActivateRace ==
    \E w \in Workers :
       \/ \E op \in {"suspend", "resume", "cancel"} : LifecycleFind(w, "A1", op, "L1", 0)
       \/ LicenseSave(w)
       \/ ActivateFindLicense(w, "K1", "P1", "i1", "none")
       \/ \E id \in ActivationIds : DeactivateSeatView(w, "K1", id)
       \/ SeatSteps(w)

SpecActivateRace == InitStatusRace /\ [][NextActivateRace]_vars

\* Status reads next to the expiration sweep, served one after the other
\* while the clock ticks
NextStatusSweep ==
    \/ \E w \in Workers :
          \/ SweepSelect(w)
          \/ SweepSave(w)
          \/ \E k \in LicenseKeys : GetLicenseStatus(w, k)
          \/ StatusSteps(w)
          \/ \E id \in LicenseIds :
                \E op \in {"suspend", "resume"} : LifecycleFind(w, "A1", op, id, 0)
          \/ LicenseSave(w)
    \/ Tick

SpecStatusSweep == InitSerial /\ [][NextStatusSweep]_vars

\* Requests with every kind of credential, served one after the other while
\* the clock ticks: two license keys of brand B1, one license each
InitAuth ==
    /\ licenses = [id \in LicenseIds |->
                      [id |-> id,
                       license_key_id |-> IF id = "L1" THEN "K1" ELSE "K2",
                       product_id |-> IF id = "L1" THEN "P1" ELSE "P2",
                       status |-> "valid",
                       seat_limit |-> 1,
                       expires_at |-> None]]
    /\ license_keys = {[id |-> "K1", brand_id |-> "B1"], [id |-> "K2", brand_id |-> "B1"]}
    /\ cache = [k \in {} |-> None]
    /\ activations = {}
    /\ now = 0
    /\ req = [w \in Workers |-> IdleRequest]
    /\ started = 0
    /\ handled = [k \in DOMAIN ApiKeyModels |-> 0]
    /\ InitMessaging
    /\ serial = TRUE

NextAuth ==
    \/ \E w \in Workers :
          \/ \E api_key \in ApiKeyInputs, op \in {"suspend", "resume", "cancel"},
                id \in LicenseIds :
                \/ LifecycleFind(w, api_key, op, id, 0)
                \/ Unauthorized(w, op, api_key)
          \/ LicenseSave(w)
          \/ \E k \in LicenseKeyInputs :
                \/ /\ authenticate_product_api(k) = 0
                   /\ \/ \E p \in Products : ActivateFindLicense(w, k, p, "i1", "none")
                      \/ \E id \in ActivationIds : DeactivateSeatView(w, k, id)
                \/ \E op \in {"activate", "deactivate"} : Unauthorized(w, op, k)
          \/ SeatSteps(w)
    \/ Tick

SpecAuth == InitAuth /\ [][NextAuth]_vars

\* Two clients, each with the API key of its brand, keep suspending and
\* resuming a license within one window of the clock
NextRateLimit ==
    \E w \in Workers :
       \/ \E api_key \in {"A1", "A2"}, op \in {"suspend", "resume"} :
             BrandRequest(w, api_key, op, "L1", 0)
       \/ LicenseSave(w)

SpecRateLimit == InitAuth /\ [][NextRateLimit]_vars

\* product lists of the provisioning requests below: accepted ones and ones
\* whose last product belongs to another brand or does not exist
EventProductLists == {<<"P1">>, <<"P1", "P1">>, <<"P1", "P3">>, <<"P0">>}

\* Every operation that publishes an event, served one request at a time:
\* lifecycle requests on L1, activate and deactivate with K1, provisioning for
\* brand B1
NextEvents ==
    \/ \E w \in Workers :
          \/ \E op \in LifecycleOps, new_expiration \in 0..MaxTime :
                LifecycleFind(w, "A1", op, "L1", new_expiration)
          \/ LicenseSave(w)
          \/ ActivateFindLicense(w, "K1", "P1", "i1", "none")
          \/ \E id \in ActivationIds : DeactivateSeatView(w, "K1", id)
          \/ SeatSteps(w)
          \/ \E products \in EventProductLists :
                ProvisionLicense(w, "B1", products, 1, None, "")
          \/ SaveLicenseKey(w)
          \/ FindProduct(w)
          \/ SaveLicense(w)
    \/ Tick

SpecEvents == InitAuth /\ [][NextEvents]_vars

\* Provisioning from an empty store: no license key, no license.  One worker
\* serves the requests of both brands one after the other.
InitProvision ==
    /\ licenses = [id \in {} |-> None]
    /\ license_keys = {}
    /\ cache = [k \in {} |-> None]
    /\ activations = {}
    /\ now = 0
    /\ req = [w \in Workers |-> IdleRequest]
    /\ started = 0
    /\ handled = [k \in DOMAIN ApiKeyModels |-> 0]
    /\ InitMessaging
    /\ serial = TRUE

NextProvision ==
    \E w \in Workers :
       \/ \E brand_id \in Brands, products \in ProductLists,
             max_seats \in {MaxSeatLimit} :
             ProvisionLicense(w, brand_id, products, max_seats, None, "")
       \/ SaveLicenseKey(w)
       \/ FindProduct(w)
       \/ SaveLicense(w)

SpecProvision == InitProvision /\ [][NextProvision]_vars

\* Provisioning by two workers at once, from an empty store: requests of one
\* brand for one product each, with or without the Idempotency-Key header
InitIdempotency ==
    /\ licenses = [id \in {} |-> None]
    /\ license_keys = {}
    /\ cache = [k \in {} |-> None]
    /\ activations = {}
    /\ now = 0
    /\ req = [w \in Workers |-> IdleRequest]
    /\ started = 0
    /\ handled = [k \in DOMAIN ApiKeyModels |-> 0]
    /\ InitMessaging
    /\ serial = FALSE

NextIdempotency ==
    \E w \in Workers :
       \/ \E product_id \in ProductIds, idempotency_key \in IdempotencyKeys :
             ProvisionLicense(w, "B1", <<product_id>>, MaxSeatLimit, None, idempotency_key)
       \/ SaveLicenseKey(w)
       \/ FindProduct(w)
       \/ SaveLicense(w)

SpecIdempotency == InitIdempotency /\ [][NextIdempotency]_vars

\* The in-process event bus from its construction on: handlers of any class
\* subscribe to two event classes, events about either brand's key or license
\* are published, and the handlers run interleaved and may raise
BusEvents ==
    {DomainEvent("LicenseKeyCreated", k, "", k) : k \in {"K1", "K2"}}
       \cup {DomainEvent("LicenseSuspended", l, l, "") : l \in LicenseIds}

InitEventBus ==
    /\ licenses = [id \in LicenseIds |->
                      [id |-> id,
                       license_key_id |-> IF id = "L1" THEN "K1" ELSE "K2",
                       product_id |-> "P1",
                       status |-> "valid",
                       seat_limit |-> 1,
                       expires_at |-> None]]
    /\ license_keys = {[id |-> "K1", brand_id |-> "B1"], [id |-> "K2", brand_id |-> "B2"]}
    /\ cache = [k \in {} |-> None]
    /\ activations = {}
    /\ now = 0
    /\ req = [w \in Workers |-> IdleRequest]
    /\ started = 0
    /\ handled = [k \in DOMAIN ApiKeyModels |-> 0]
    /\ serial = TRUE
    /\ event_bus = IdleEventBus([t \in EventTypes |-> <<>>])
    /\ webhook_configs = {[id |-> "W1", brand_id |-> "B1", is_active |-> TRUE,
                           events |-> {"license_key.created"}, max_retries |-> 0]}
    /\ celery = IdleCelery
    /\ rabbitmq = IdleRabbitMQ

NextEventBus ==
    \/ \E t \in {"LicenseKeyCreated", "LicenseSuspended"}, h \in HandlerClasses :
          subscribe(t, h)
    \/ \E event \in BusEvents : publish(event)
    \/ \E i \in 1..(MaxHandlers + 1) : HandleEventStart(i)
    \/ \E i \in 1..(MaxHandlers + 1), raises \in BOOLEAN : _handle_event(i, raises)
    \/ PublishReturn

SpecEventBus == InitEventBus /\ [][NextEventBus]_vars

\* The running service with the in-process bus: the subscriptions of
\* register_event_handlers, any two webhook configs, and the events the
\* handlers publish about either brand's key or license
WebhookEventNames == {"license_key.created", "license.suspended"}

WebhookConfigRows(id) ==
    {[id |-> id, brand_id |-> b, is_active |-> a, events |-> ev, max_retries |-> MaxRetries] :
        b \in {"B1", "B2"}, a \in BOOLEAN, ev \in SUBSET WebhookEventNames}

PublishedEvents ==
    {DomainEvent("LicenseKeyCreated", k, "", k) : k \in {"K1", "K2"}}
       \cup {DomainEvent("LicenseProvisioned", l, l, IF l = "L1" THEN "K1" ELSE "K2") :
                l \in LicenseIds}
       \cup {DomainEvent(t, l, l, "") :
                t \in {"LicenseRenewed", "LicenseSuspended", "LicenseResumed",
                       "LicenseCancelled"},
                l \in LicenseIds}
       \cup {DomainEvent(t, 1, l, "") :
                t \in {"LicenseActivated", "SeatDeactivated"}, l \in LicenseIds}

InitWebhook ==
    /\ licenses = [id \in LicenseIds |->
                      [id |-> id,
                       license_key_id |-> IF id = "L1" THEN "K1" ELSE "K2",
                       product_id |-> "P1",
                       status |-> "valid",
                       seat_limit |-> 1,
                       expires_at |-> None]]
    /\ license_keys = {[id |-> "K1", brand_id |-> "B1"], [id |-> "K2", brand_id |-> "B2"]}
    /\ cache = [k \in {} |-> None]
    /\ activations = {}
    /\ now = 0
    /\ req = [w \in Workers |-> IdleRequest]
    /\ started = 0
    /\ handled = [k \in DOMAIN ApiKeyModels |-> 0]
    /\ serial = TRUE
    /\ event_bus = IdleEventBus(register_event_handlers)
    /\ \E c1 \in WebhookConfigRows("W1"), c2 \in WebhookConfigRows("W2") :
          webhook_configs = {c1, c2}
    /\ celery = IdleCelery
    /\ rabbitmq = IdleRabbitMQ

NextWebhook ==
    \/ \E event \in PublishedEvents : publish(event)
    \/ \E i \in 1..(MaxHandlers + 1) : HandleEventStart(i)
    \/ \E i \in 1..(MaxHandlers + 1), raises \in BOOLEAN : _handle_event(i, raises)
    \/ PublishReturn

SpecWebhook == InitWebhook /\ [][NextWebhook]_vars

\* One webhook delivery per config in the task queue, for any two configs of
\* brand B1, against endpoints that answer 2xx or fail in any order
InitDelivery ==
    /\ licenses = [id \in LicenseIds |->
                      [id |-> id,
                       license_key_id |-> IF id = "L1" THEN "K1" ELSE "K2",
                       product_id |-> "P1",
                       status |-> "valid",
                       seat_limit |-> 1,
                       expires_at |-> None]]
    /\ license_keys = {[id |-> "K1", brand_id |-> "B1"], [id |-> "K2", brand_id |-> "B2"]}
    /\ cache = [k \in {} |-> None]
    /\ activations = {}
    /\ now = 0
    /\ req = [w \in Workers |-> IdleRequest]
    /\ started = 0
    /\ handled = [k \in DOMAIN ApiKeyModels |-> 0]
    /\ serial = TRUE
    /\ event_bus = IdleEventBus(register_event_handlers)
    /\ \E r1, r2 \in 0..MaxRetries, a \in BOOLEAN, ev \in SUBSET {"license_key.created"} :
          webhook_configs =
             {[id |-> "W1", brand_id |-> "B1", is_active |-> TRUE,
               events |-> {"license_key.created"}, max_retries |-> r1],
              [id |-> "W2", brand_id |-> "B1", is_active |-> a,
               events |-> ev, max_retries |-> r2]}
    /\ celery = [IdleCelery EXCEPT
                    !.queue = deliver_webhooks_for_event("B1", "license_key.created")]
    /\ rabbitmq = IdleRabbitMQ

NextDelivery ==
    \/ deliver_webhook_task
    \/ \E ok \in BOOLEAN : deliver_webhook(ok)

SpecDelivery == InitDelivery /\ [][NextDelivery]_vars

\* The broker-backed bus (USE_RABBITMQ=true) with a consumer running: events
\* are published, consumed and processed in any interleaving
NextRabbitMQ ==
    \/ \E event \in PublishedEvents : RabbitMQ_publish(event)
    \/ \E sent \in BOOLEAN : _handle_message(sent)
    \/ process_event_from_rabbitmq

SpecRabbitMQ == InitWebhook /\ [][NextRabbitMQ]_vars

(* ------------------------------ properties ---------------------------- *)

\* a worker's request of the given kind has been answered
Done(w, op) == req[w].pc = "done" /\ req[w].op = op

\* the rows of a (license, instance) pair, and the active rows of a license, in
\* a set of rows
PairRows(rows, license_id, instance_identifier) ==
    {a \in rows : a.license_id = license_id /\ a.instance_identifier = instance_identifier}

ActiveRows(rows, license_id) ==
    {a \in rows : a.license_id = license_id /\ a.is_active}

\* seats of the request's license that were free when the request started
FreeSeats(r) ==
    r.pre.licenses[r.license_id].seat_limit
        - Cardinality(ActiveRows(r.pre.activations, r.license_id))

\* two answered activate requests on one license that started from the same
\* stored state, so neither saw a write of the other when it started
Raced(w, v) ==
    /\ w # v
    /\ Done(w, "activate") /\ Done(v, "activate")
    /\ req[w].license_id = req[v].license_id
    /\ req[w].license_id \in LicenseIds
    /\ req[w].pre.activations = req[v].pre.activations
    /\ req[w].pre.licenses = req[v].pre.licenses
    /\ req[w].pre.license_keys = req[v].pre.license_keys
    /\ req[w].pre.now = req[v].pre.now

Min(a, b) == IF a <= b THEN a ELSE b

\* C1: for every license, in every reachable state under any interleaving of
\* concurrent activate and deactivate requests, the number of active
\* activations never exceeds the license's seat_limit.
C1_SeatLimitNeverExceeded ==
    \A id \in LicenseIds : count_active_seats(id) <= licenses[id].seat_limit

\* C2: when two activate requests with distinct instance identifiers, neither
\* already active, race for a valid license with n free seats, exactly
\* min(2, n) of them succeed and every other one fails with SEAT_LIMIT_EXCEEDED.
C2_ExactlyMinSucceed ==
    \A w \in Workers, v \in Workers :
       ( /\ Raced(w, v)
         /\ req[w].instance_identifier # req[v].instance_identifier
         /\ \A x \in {w, v} :
               \A a \in PairRows(req[x].pre.activations, req[x].license_id,
                                 req[x].instance_identifier) : ~a.is_active )
       => LET succeeded == {x \in {w, v} : req[x].resp.status = 201}
          IN /\ Cardinality(succeeded) = Min(2, FreeSeats(req[w]))
             /\ \A x \in {w, v} \ succeeded : req[x].resp.code = "SEAT_LIMIT_EXCEEDED"

\* C3: when two activate requests for the same (license, instance), not active
\* before, race while a seat is free, exactly one succeeds and the other is
\* rejected with a client error (409 DUPLICATE_ACTIVE; a 400, which the code
\* answers to a duplicate met by its own lookups, is let pass here); the
\* unique constraint refusing the second row is never answered with a 500.
C3_SameInstanceOneSucceeds ==
    \A w \in Workers, v \in Workers :
       ( /\ Raced(w, v)
         /\ req[w].instance_identifier = req[v].instance_identifier
         /\ FreeSeats(req[w]) >= 1
         /\ \A a \in PairRows(req[w].pre.activations, req[w].license_id,
                              req[w].instance_identifier) : ~a.is_active )
       => /\ \E x \in {w, v}, y \in {w, v} :
                /\ x # y
                /\ req[x].resp.status = 201
                /\ req[y].resp.status \in {409, 400}
          /\ \A x \in {w, v} : req[x].resp.status # 500

\* the instance of an answered activate request was active on the request's
\* license when the request started
WasActive(r) ==
    \E a \in PairRows(r.pre.activations, r.license_id, r.instance_identifier) : a.is_active

\* C4: an activate request for an instance that is already active on the
\* license is rejected as a duplicate, with status 409 and code
\* DUPLICATE_ACTIVE, and leaves every activation row, hence the row count and
\* the seat count of the license, as it was.
C4_DuplicateAnswered409 ==
    \A w \in Workers :
       (Done(w, "activate") /\ WasActive(req[w]))
       => /\ req[w].resp = Response(409, "DUPLICATE_ACTIVE")
          /\ activations = req[w].pre.activations

\* C4, the part the code keeps: such a request is rejected with a client error,
\* 409 or 400 and never 500, and leaves every activation row as it was.
C4_DuplicateRejected ==
    \A w \in Workers :
       (Done(w, "activate") /\ WasActive(req[w]))
       => /\ req[w].resp.status \in {409, 400}
          /\ activations = req[w].pre.activations

\* C4 witness: a second activate of an active instance has been answered 400
\* INVALID_LICENSE_STATUS and the one row of the instance is still active.
C4_Witness ==
    \E w \in Workers :
       /\ Done(w, "activate") /\ WasActive(req[w])
       /\ req[w].resp = Response(400, "INVALID_LICENSE_STATUS")
       /\ Cardinality(PairRows(activations, req[w].license_id,
                               req[w].instance_identifier)) = 1

\* C5: in every reachable state, under any interleaving of activate and
\* deactivate requests, no two activation rows share (license_id,
\* instance_identifier); and a request that inserted a row did so only for a
\* pair that had no row when it started, so an instance with an inactive row
\* reuses that row.
C5_OneRowPerInstance ==
    /\ \A a \in activations, b \in activations :
          (a.license_id = b.license_id /\ a.instance_identifier = b.instance_identifier)
          => a = b
    /\ \A w \in Workers :
          (req[w].op = "activate" /\ req[w].created)
          => PairRows(req[w].pre.activations, req[w].license_id,
                      req[w].instance_identifier) = {}

\* C5 witness: an activate of an instance whose row was inactive has succeeded
\* without inserting a row: the pair has one row, with the id it had, active again.
C5_Witness ==
    \E w \in Workers :
       /\ Done(w, "activate") /\ req[w].resp.status = 201 /\ ~req[w].created
       /\ \E old \in PairRows(req[w].pre.activations, req[w].license_id,
                              req[w].instance_identifier) :
             /\ ~old.is_active
             /\ \E a \in activations : a.id = old.id /\ a.is_active
       /\ Cardinality(PairRows(activations, req[w].license_id,
                               req[w].instance_identifier)) = 1

\* C6: for every stored activation, in every state reached by any sequence of
\* activate, deactivate and reactivate, is_active holds iff deactivated_at is null.
C6_ActiveIffNotDeactivated ==
    \A a \in activations : a.is_active <=> (a.deactivated_at = None)

\* C6 witness: a row that was inactive with its deactivated_at set has been
\* reactivated: it is stored active with no deactivated_at.
C6_Witness ==
    \E w \in Workers :
       /\ Done(w, "activate") /\ req[w].resp.status = 201
       /\ \E old \in req[w].pre.activations :
             /\ ~old.is_active /\ old.deactivated_at # None
             /\ \E a \in activations :
                   a.id = old.id /\ a.is_active /\ a.deactivated_at = None

\* the license of an answered activate request, as stored when the request started
PreLicense(r) == r.pre.licenses[r.license_id]

\* C7: an activate request on a suspended license is answered LICENSE_SUSPENDED,
\* on a cancelled one LICENSE_CANCELLED, on an expired one (status expired, or
\* expires_at already passed) LICENSE_EXPIRED, each leaving the activations
\* unchanged; on a valid license with a free seat and a fresh instance it succeeds.
C7_ActivationGatedOnLicenseState ==
    \A w \in Workers :
       (Done(w, "activate") /\ req[w].license_id \in LicenseIds)
       => LET r == req[w]
              license == PreLicense(r)
              passed == license.expires_at # None /\ license.expires_at[1] < r.pre.now
          IN /\ license.status = "suspended"
                => r.resp.code = "LICENSE_SUSPENDED" /\ activations = r.pre.activations
             /\ license.status = "cancelled"
                => r.resp.code = "LICENSE_CANCELLED" /\ activations = r.pre.activations
             /\ (license.status = "expired" \/ (license.status = "valid" /\ passed))
                => r.resp.code = "LICENSE_EXPIRED" /\ activations = r.pre.activations
             /\ ( /\ license.status = "valid" /\ ~passed
                  /\ FreeSeats(r) >= 1
                  /\ PairRows(r.pre.activations, r.license_id, r.instance_identifier) = {} )
                => r.resp.status = 201

C9_DeactivateIdempotent ==
    \A w \in Workers :
       LET r == req[w] IN
       Done(w, "deactivate")
       => \A old \in r.pre.activations :
             (old.id = r.activation_id /\ ~old.is_active)
             => /\ r.resp.status = 200
                /\ old \in activations

\* C9 witness: an activation deactivated at an earlier time has been
\* deactivated a second time, with answer 200, and still holds the first time.
C9_Witness ==
    \E w \in Workers :
       LET r == req[w] IN
       /\ Done(w, "deactivate") /\ r.resp.status = 200
       /\ \E old \in r.pre.activations :
             /\ old.id = r.activation_id /\ ~old.is_active
             /\ old.deactivated_at # None /\ old.deactivated_at[1] < r.pre.now
             /\ old \in activations

\* the transition table of the license lifecycle: the status an operation yields
\* from a status, or "error" where the table allows no transition
TransitionTable(status, op) ==
    CASE status = "valid" /\ op = "renew" -> "valid"
      [] status = "valid" /\ op = "suspend" -> "suspended"
      [] status = "valid" /\ op = "cancel" -> "cancelled"
      [] status = "suspended" /\ op = "renew" -> "suspended"
      [] status = "suspended" /\ op = "resume" -> "valid"
      [] status = "suspended" /\ op = "cancel" -> "cancelled"
      [] status = "expired" /\ op = "renew" -> "valid"
      [] status = "expired" /\ op = "cancel" -> "cancelled"
      [] OTHER -> "error"

\* C10: every lifecycle operation (renew with a new expiration after now,
\* suspend, resume, cancel) on a license of any status yields the status the
\* transition table gives; where the table allows no transition the operation
\* is answered with an error and the stored license is unchanged.
C10_TransitionsFollowTable ==
    \A w \in Workers :
       LET r == req[w] IN
       ( /\ r.pc = "done" /\ r.op \in LifecycleOps
         /\ r.op = "renew" => r.new_expiration > r.pre.now )
       => LET to == TransitionTable(r.pre.licenses[r.license_id].status, r.op)
          IN IF to = "error"
             THEN r.resp.status # 200 /\ licenses = r.pre.licenses
             ELSE r.resp.status = 200 /\ licenses[r.license_id].status = to

\* C11: cancel is terminal: once the stored status of a license is cancelled it
\* is cancelled in every later state, under any interleaving of renew, suspend,
\* resume, cancel requests and sweep runs.
C11_CancelIsTerminal ==
    [][\A id \in LicenseIds :
          licenses[id].status = "cancelled" => licenses'[id].status = "cancelled"]_vars

\* the license of an answered lifecycle request as stored now
StoredNow(r) == licenses[r.license_id]

\* C12: each of renew, suspend, resume and cancel applied to a cancelled license
\* fails (with INVALID_LICENSE_STATUS; any answer other than success is let pass
\* here) and leaves the stored license, status and expires_at, unchanged.
C12_CancelledRefusesEveryChange ==
    \A w \in Workers, op \in LifecycleOps :
       (Done(w, op) /\ PreLicense(req[w]).status = "cancelled")
       => /\ req[w].resp.status # 200
          /\ licenses = req[w].pre.licenses

\* C13: resume succeeds only on a suspended license, and then stores the same
\* license (same id, same other fields) with status valid; on a license of any
\* other status it fails and the stored licenses are not modified.
C13_ResumeOnlyFromSuspended ==
    \A w \in Workers :
       Done(w, "resume")
       => IF PreLicense(req[w]).status = "suspended"
          THEN /\ req[w].resp.status = 200
               /\ licenses = [req[w].pre.licenses EXCEPT
                                 ![req[w].license_id].status = "valid"]
          ELSE /\ req[w].resp.status # 200
               /\ licenses = req[w].pre.licenses

\* C13 witness: a resume of a suspended license has been answered 200 and the
\* license is stored with status valid.
C13_Witness ==
    \E w \in Workers :
       /\ Done(w, "resume")
       /\ PreLicense(req[w]).status = "suspended"
       /\ req[w].resp.status = 200
       /\ StoredNow(req[w]).status = "valid"
       /\ StoredNow(req[w]).id = req[w].license_id

\* C14: renew fails with INVALID_EXPIRATION and changes nothing unless the new
\* expiration is strictly later than now; when it succeeds it stores the new
\* expiration, turns an expired license back to valid and leaves the status of
\* a valid or suspended license as it was.
C14_RenewNeedsLaterExpiration ==
    \A w \in Workers :
       LET r == req[w] IN
       Done(w, "renew")
       => IF r.new_expiration > r.pre.now
          THEN PreLicense(r).status \in {"valid", "suspended", "expired"}
               => /\ r.resp.status = 200
                  /\ StoredNow(r).expires_at = Some(r.new_expiration)
                  /\ StoredNow(r).status =
                        IF PreLicense(r).status = "expired" THEN "valid"
                        ELSE PreLicense(r).status
          ELSE /\ r.resp.code = "INVALID_EXPIRATION"
               /\ licenses = r.pre.licenses

C16_SweepExpiresOnlyValidPastDue ==
    \A w \in Workers :
       LET r == req[w] IN
       (r.pc = "done" /\ r.op = "sweep")
       => \A id \in LicenseIds :
             LET before == r.pre.licenses[id]
             IN licenses[id] =
                   IF /\ before.status = "valid"
                      /\ before.expires_at # None
                      /\ before.expires_at[1] < r.pre.now
                   THEN [before EXCEPT !.status = "expired"]
                   ELSE before

\* C16 witness: a sweep has run over one valid license past due, now stored
\* expired, and one license past due that was not valid, stored as it was.
C16_Witness ==
    \E w \in Workers :
       LET r == req[w] IN
       /\ r.pc = "done" /\ r.op = "sweep"
       /\ \E id \in LicenseIds :
             /\ r.pre.licenses[id].status = "valid"
             /\ r.pre.licenses[id].expires_at # None
             /\ r.pre.licenses[id].expires_at[1] < r.pre.now
             /\ licenses[id].status = "expired"
       /\ \E id \in LicenseIds :
             /\ r.pre.licenses[id].status \in {"suspended", "cancelled"}
             /\ r.pre.licenses[id].expires_at # None
             /\ r.pre.licenses[id].expires_at[1] < r.pre.now
             /\ licenses[id] = r.pre.licenses[id]

\* C17: the sweep is safe to run in parallel with another sweep and with renew,
\* suspend, resume and cancel: it never overwrites a status or expires_at that
\* another operation stored after the sweep read the license, that is, whenever
\* a sweep writes a license, the stored status and expires_at are still the
\* ones the sweep read.
C17_SweepWritesOnlyWhatItRead ==
    [][\A w \in Workers :
          (req[w].pc = "sweep_save" /\ req'[w] # req[w])
          => LET read == Head(req[w].queue)
             IN /\ licenses[read.id].status = read.status
                /\ licenses[read.id].expires_at = read.expires_at]_vars

\* the products of a provision request that provision must reject: those that
\* do not exist and those of another brand
Rejected(r) ==
    {i \in 1..Len(r.products) :
        \/ r.products[i] \notin DOMAIN ProductModels
        \/ ProductModels[r.products[i]].brand_id # r.brand_id}

\* C18: provision is atomic: an answered provision request has left behind the
\* license key and one license for every requested product, or nothing; a
\* request that listed a missing or foreign product has left no license key
\* row and no license row.
C18_ProvisionAllOrNothing ==
    \A w \in Workers :
       LET r == req[w] IN
       Done(w, "provision")
       => \/ /\ r.resp.status = 201
             /\ \E k \in license_keys \ r.pre.license_keys :
                   \A i \in 1..Len(r.products) :
                      \E id \in (DOMAIN licenses) \ (DOMAIN r.pre.licenses) :
                         /\ licenses[id].license_key_id = k.id
                         /\ licenses[id].product_id = r.products[i]
          \/ /\ r.resp.status # 201
             /\ license_keys = r.pre.license_keys
             /\ licenses = r.pre.licenses

\* C19: provision rejects every product id that does not exist or is not owned
\* by the requesting brand: a request listing one is answered 400, and in every
\* reachable state the product of each license exists and belongs to the brand
\* of the license's key.
C19_LicensedProductsBelongToKeyBrand ==
    /\ \A id \in DOMAIN licenses :
          /\ licenses[id].product_id \in DOMAIN ProductModels
          /\ \E k \in license_keys :
                /\ k.id = licenses[id].license_key_id
                /\ k.brand_id = ProductModels[licenses[id].product_id].brand_id
    /\ \A w \in Workers :
          (Done(w, "provision") /\ Rejected(req[w]) # {})
          => /\ req[w].resp.status = 400
             /\ \A id \in (DOMAIN licenses) \ (DOMAIN req[w].pre.licenses) :
                   \E i \in 1..Len(req[w].products) :
                      /\ i \notin Rejected(req[w])
                      /\ licenses[id].product_id = req[w].products[i]

\* C19 witness: a request of one brand listing its own product and then a
\* product of the other brand has been answered 400, with a license stored for
\* its own product only.
C19_Witness ==
    \E w \in Workers :
       LET r == req[w] IN
       /\ Done(w, "provision")
       /\ r.resp.status = 400
       /\ \E i \in Rejected(r) : r.products[i] \in DOMAIN ProductModels
       /\ \E id \in (DOMAIN licenses) \ (DOMAIN r.pre.licenses) :
             ProductModels[licenses[id].product_id].brand_id = r.brand_id

\* C20: in every reachable state there is at most one license per
\* (license_key_id, product_id), also after a provision request that lists the
\* same product id more than once.
C20_OneLicensePerKeyAndProduct ==
    \A a, b \in DOMAIN licenses :
       (/\ licenses[a].license_key_id = licenses[b].license_key_id
        /\ licenses[a].product_id = licenses[b].product_id)
       => a = b

\* C21: two provision requests of the same brand carrying the same
\* Idempotency-Key, answered while the clock stands still (within the TTL),
\* have the same response (the same status and the same license key) and
\* between them have stored one license key row, whether they ran one after
\* the other or concurrently.
C21_SameIdempotencyKeyAppliedOnce ==
    \A w, v \in Workers :
       (/\ w # v
        /\ Done(w, "provision") /\ Done(v, "provision")
        /\ req[w].idempotency_key # ""
        /\ req[w].idempotency_key = req[v].idempotency_key
        /\ req[w].brand_id = req[v].brand_id)
       => /\ req[w].resp = req[v].resp
          /\ req[w].license_key = req[v].license_key

\* the licenses stored under a license key and their active activations
KeyLicenses(license_key) ==
    {id \in LicenseIds : licenses[id].license_key_id = license_key}

ActiveOf(ids) == {a \in activations : a.is_active /\ a.license_id \in ids}

\* an answered status request, with its body
StatusAnswered(w) ==
    Done(w, "status") /\ req[w].resp.status = 200 /\ req[w].body # None

Reported(body) ==
    {<<body.licenses[i].id, body.licenses[i].status, body.licenses[i].expires_at>> :
        i \in 1..Len(body.licenses)}

\* the same as stored when the request started
StoredAtStart(r) ==
    {<<id, r.pre.licenses[id].status, r.pre.licenses[id].expires_at>> :
        id \in {x \in LicenseIds : r.pre.licenses[x].license_key_id = r.license_key}}

\* C22: after a successful renew, suspend, resume or cancel, the next status
\* request on the owning key returns the new status and expires_at and not a
\* result cached before: a status request that starts when no other request
\* is in flight, and during which no license is changed, is answered with the
\* status and expires_at stored, whatever status reads ran concurrently with
\* the earlier changes.
C22_StatusAfterLifecycleChangeIsFresh ==
    \A w \in Workers :
       (StatusAnswered(w) /\ req[w].pre.in_flight = {} /\ licenses = req[w].pre.licenses)
       => Reported(req[w].body[1]) = StoredAtStart(req[w])

\* C24: when the sweep has marked a license expired, the next status request
\* on the owning key reports it as expired, not the cached valid state: a
\* status request started after a sweep run ended reports for each license the
\* status stored at that time.
C24_StatusAfterSweepIsFresh ==
    \A w \in Workers :
       StatusAnswered(w)
       => \A i \in 1..Len(req[w].body[1].licenses) :
             LET d == req[w].body[1].licenses[i]
             IN req[w].pre.licenses[d.id].status = "expired" => d.status = "expired"

\* a request whose credential the middleware must refuse: on a brand route an
\* API key that is missing, of no row, or expired when the request started; on
\* a product route a license key that is missing or of no row
CredentialRefused(r) ==
    IF r.op \in BrandOps
    THEN \/ r.api_key = ""
         \/ r.api_key \notin DOMAIN ApiKeyModels
         \/ /\ ApiKeyModels[r.api_key].expires_at # None
            /\ ApiKeyModels[r.api_key].expires_at[1] < r.pre.now
    ELSE \/ r.license_key = ""
         \/ \A k \in r.pre.license_keys : k.id # r.license_key

\* C26: a brand request with a missing, unknown or expired API key and a product
\* request with a missing or unknown license key is answered 401 at once, runs
\* no handler (it publishes nothing) and leaves every table and the cache as
\* they were.
C26_RefusedCredentialChangesNothing ==
    \A w \in Workers :
       (req[w].pc # "idle" /\ CredentialRefused(req[w]))
       => /\ req[w].pc = "done"
          /\ req[w].resp.status = 401
          /\ req[w].events = << >>
          /\ licenses = req[w].pre.licenses
          /\ activations = req[w].pre.activations
          /\ license_keys = req[w].pre.license_keys
          /\ cache = req[w].pre.cache

\* C26 witness: a lifecycle request made with an API key after its expires_at
\* has been answered 401.
C26_Witness ==
    \E w \in Workers :
       /\ Done(w, "suspend") \/ Done(w, "cancel") \/ Done(w, "resume")
       /\ req[w].api_key \in DOMAIN ApiKeyModels
       /\ ApiKeyModels[req[w].api_key].expires_at = Some(0)
       /\ req[w].pre.now = 1
       /\ req[w].resp.status = 401

\* the brand owning a license: the brand of its license key
OwnerBrand(license) ==
    {k.brand_id : k \in {x \in license_keys : x.id = license.license_key_id}}

\* C27: tenant isolation: a renew, suspend, resume or cancel request
\* authenticated with the API key of a brand changes a license only if the
\* license's key belongs to that brand; a request of another brand leaves the
\* stored licenses unchanged.
C27_LifecycleOnlyByOwningBrand ==
    \A w \in Workers, op \in LifecycleOps :
       (Done(w, op) /\ req[w].resp.status # 401
        /\ req[w].brand_id \notin OwnerBrand(PreLicense(req[w])))
       => licenses = req[w].pre.licenses

\* the activation a deactivate request names, as stored when the request started
NamedActivation(r) == {a \in r.pre.activations : a.id = r.activation_id}

\* C28: a deactivate request for an activation, authenticated with a license
\* key that is not the key of the activation's license, is answered 403 and
\* leaves the activations unchanged.
C28_DeactivateWithOtherKeyForbidden ==
    \A w \in Workers :
       (/\ Done(w, "deactivate")
        /\ ~ CredentialRefused(req[w])
        /\ \E a \in NamedActivation(req[w]) :
              req[w].pre.licenses[a.license_id].license_key_id # req[w].license_key)
       => /\ req[w].resp.status = 403
          /\ activations = req[w].pre.activations

\* C28 witness: a deactivate request naming an active activation of a license
\* under another key than the one it authenticated with has been answered 403.
C28_Witness ==
    \E w \in Workers :
       /\ Done(w, "deactivate")
       /\ ~ CredentialRefused(req[w])
       /\ \E a \in NamedActivation(req[w]) :
             /\ a.is_active
             /\ req[w].pre.licenses[a.license_id].license_key_id # req[w].license_key
       /\ req[w].resp.status = 403

\* C29: for every API key and every 60-second window, at most the key's limit
\* (DEFAULT_RATE_LIMIT) of brand-route requests are passed on to a view and its
\* handler; every further request with that key in the window is answered 429.
C29_AtMostLimitRequestsPerWindow ==
    \A k \in DOMAIN ApiKeyModels : handled[k] <= DEFAULT_RATE_LIMIT

\* the stored state contains the change an event describes
EventStored(r, e) ==
    CASE e.event_type = "LicenseKeyCreated" ->
            \E k \in license_keys : k.id = e.license_key_id /\ k.brand_id = r.brand_id
      [] e.event_type = "LicenseProvisioned" ->
            /\ e.license_id \in DOMAIN licenses
            /\ licenses[e.license_id].license_key_id = e.license_key_id
            /\ e.license_id \notin DOMAIN r.pre.licenses
      [] e.event_type = "LicenseRenewed" ->
            licenses[e.license_id].expires_at = Some(r.new_expiration)
      [] e.event_type = "LicenseSuspended" ->
            licenses[e.license_id].status = "suspended"
      [] e.event_type = "LicenseResumed" ->
            licenses[e.license_id].status = "valid"
      [] e.event_type = "LicenseCancelled" ->
            licenses[e.license_id].status = "cancelled"
      [] e.event_type = "LicenseActivated" ->
            \E a \in activations :
               a.id = e.aggregate_id /\ a.license_id = e.license_id /\ a.is_active
      [] e.event_type = "SeatDeactivated" ->
            \E a \in activations :
               a.id = e.aggregate_id /\ a.license_id = e.license_id /\ ~ a.is_active

\* C30: a domain event is published only after the change it describes has
\* been stored, and never for a change that was rejected or undone: from the
\* moment a request has published an event until the next request starts, the
\* stored state contains the change of every event the request published, and a
\* lifecycle, activate or deactivate request answered with an error has
\* published nothing.
C30_EventsOnlyForStoredChanges ==
    \A w \in Workers :
       /\ \A i \in DOMAIN req[w].events : EventStored(req[w], req[w].events[i])
       /\ (req[w].pc = "done" /\ req[w].op # "provision"
           /\ req[w].resp.status \notin {200, 201})
          => req[w].events = << >>

\* C30 witness: a provisioning request answered 400 for its second product has
\* published LicenseKeyCreated and LicenseProvisioned for the key and the
\* license it stored before.
C30_Witness ==
    \E w \in Workers :
       /\ Done(w, "provision")
       /\ req[w].resp.status = 400
       /\ Len(req[w].events) = 2
       /\ req[w].events[1].event_type = "LicenseKeyCreated"
       /\ req[w].events[2].event_type = "LicenseProvisioned"
       /\ \A i \in 1..2 : EventStored(req[w], req[w].events[i])

\* C36: a lifecycle request the domain rejects, a resume of a license that is
\* not suspended or a renew with an expiration date in the past, is answered
\* 400, not 500, and leaves the stored licenses unchanged.
C36_DomainRejectionAnswered400 ==
    \A w \in Workers :
       LET r == req[w] IN
       (\/ Done(w, "resume") /\ PreLicense(r).status # "suspended"
        \/ Done(w, "renew") /\ r.new_expiration < r.pre.now)
       => /\ r.resp.status = 400
          /\ licenses = r.pre.licenses

\* the license of an activate request was valid when the request started
ValidAtStart(r) == is_valid(PreLicense(r), r.pre.now)

\* the instance of an activate request held an active seat of the license when
\* the request started
ActiveAtStart(r) ==
    \E a \in PairRows(r.pre.activations, r.license_id, r.instance_identifier) : a.is_active

\* C35: every failure of an activate request leaves with the status of its
\* kind: 422 for a license that is expired, suspended or cancelled and for a
\* seat-limit violation, 409 for an instance that is already active; 500 is
\* answered to none of them.
C35_FailuresCarryTheirStatus ==
    \A w \in Workers :
       LET r == req[w] IN
       (Done(w, "activate") /\ r.license_id \in LicenseIds)
       => /\ ~ ValidAtStart(r) => r.resp.status = 422
          /\ (ValidAtStart(r) /\ ActiveAtStart(r)) => r.resp.status = 409
          /\ (ValidAtStart(r) /\ ~ ActiveAtStart(r) /\ FreeSeats(r) = 0)
             => r.resp.status = 422
          /\ r.resp.status # 500

\* C37: no activation is written as active for a license after a suspend,
\* cancel or expiry of that license has been stored: every step that stores a
\* new active row, or turns a stored row active, finds the license stored with
\* a status other than suspended, cancelled and expired.
C37_NoSeatWrittenOnInvalidLicense ==
    [][\A a \in activations' :
          (a.is_active /\ a \notin activations)
          => licenses[a.license_id].status \notin {"suspended", "cancelled", "expired"}]_vars

\* the status a successful suspend, resume or cancel writes
StatusWritten(op) ==
    CASE op = "suspend" -> "suspended"
      [] op = "resume" -> "valid"
      [] op = "cancel" -> "cancelled"

\* C40: concurrent lifecycle operations on one license lose no update: when a
\* renew(e) and a suspend, resume or cancel of the same license, the only two
\* requests made, have both been answered 200, the stored license has
\* expires_at = e together with the status the other operation wrote.
C40_NoLostLifecycleUpdate ==
    \A w \in Workers, v \in Workers, op \in {"suspend", "resume", "cancel"} :
       (/\ started = 2
        /\ Done(w, "renew") /\ req[w].resp.status = 200
        /\ Done(v, op) /\ req[v].resp.status = 200
        /\ req[w].license_id = req[v].license_id)
       => /\ StoredNow(req[w]).expires_at = Some(req[w].new_expiration)
          /\ StoredNow(req[w]).status = StatusWritten(op)

\* C38: activating an instance whose activation row exists but is inactive
\* reuses that row, and the row stored afterwards is active, has no
\* deactivated_at, has activated_at at the time of the reactivation (not
\* before the request started) and holds the instance metadata the request
\* supplied.
C38_ReactivationRefreshesRow ==
    \A w \in Workers :
       LET r == req[w]
           before == PairRows(r.pre.activations, r.license_id, r.instance_identifier)
           after == PairRows(activations, r.license_id, r.instance_identifier)
       IN (/\ Done(w, "activate") /\ r.resp.status = 201
           /\ before # {}
           /\ \A a \in before : ~ a.is_active)
          => /\ {a.id : a \in after} = {a.id : a \in before}
             /\ \A a \in after :
                   /\ a.is_active
                   /\ a.deactivated_at = None
                   /\ a.activated_at >= r.pre.now
                   /\ r.instance_metadata # "none"
                      => a.instance_metadata = r.instance_metadata

\* C39: a successful deactivate(activation_id) of an active activation sets
\* is_active = false and deactivated_at on the activation whose id is
\* activation_id and changes no other activation, also when the license key
\* covers several licenses that each have an activation of the same instance.
C39_DeactivateChangesOnlyItsTarget ==
    \A w \in Workers :
       LET r == req[w] IN
       (/\ Done(w, "deactivate") /\ r.resp.status = 200
        /\ \E a \in NamedActivation(r) : a.is_active)
       => /\ \A a \in activations :
                a.id = r.activation_id => ~ a.is_active /\ a.deactivated_at # None
          /\ {a \in activations : a.id # r.activation_id}
                = {a \in r.pre.activations : a.id # r.activation_id}


\* C31: in-process publish never raises to the publisher, and when it returns
\* every handler subscribed to the event's class has been invoked and has
\* finished, whether it returned or raised.
C31_PublishRunsAllHandlersAndIsolatesFailures ==
    [][/\ event_bus'.pc # "raised"
       /\ (event_bus.pc = "gather" /\ event_bus'.pc = "returned")
          => /\ [i \in DOMAIN event_bus'.tasks |-> event_bus'.tasks[i].handler]
                   = event_bus'._handlers[event_bus'.event[1].event_type]
             /\ \A i \in DOMAIN event_bus'.tasks :
                   event_bus'.tasks[i].state \in {"returned", "raised"}]_vars

C31_Witness ==
    /\ event_bus.pc = "returned"
    /\ \E i, j \in DOMAIN event_bus.tasks :
          /\ event_bus.tasks[i].state = "raised"
          /\ event_bus.tasks[j].state = "returned"


\* the brand an event concerns: the brand of the license key it names, or of
\* the key of the license it names
EventBrand(e) ==
    LET key_id == IF e.event_type = "LicenseKeyCreated" THEN e.license_key_id
                  ELSE licenses[e.license_id].license_key_id
    IN (CHOOSE k \in license_keys : k.id = key_id).brand_id

\* the webhook configs an event is to be delivered to
MatchingConfigs(e) ==
    {c \in webhook_configs : /\ c.brand_id = EventBrand(e)
                             /\ c.is_active
                             /\ event_type_map(e.event_type) \in c.events}

\* C32: once an event has been published, a delivery task is in the task
\* queue for every active webhook config of the event's brand that lists the
\* event's type, and no task in the queue is for a config that is inactive or
\* does not list the task's event type.
C32_DeliveriesForExactlyTheMatchingConfigs ==
    /\ event_bus.pc = "returned"
       => \A c \in MatchingConfigs(event_bus.event[1]) :
             \E i \in DOMAIN celery.queue :
                /\ celery.queue[i].webhook_config_id = c.id
                /\ celery.queue[i].event_type = event_type_map(event_bus.event[1].event_type)
    /\ \A i \in DOMAIN celery.queue :
          \E c \in webhook_configs :
             /\ c.id = celery.queue[i].webhook_config_id
             /\ c.is_active
             /\ celery.queue[i].event_type \in c.events


\* C33: the HTTP posts made to one endpoint for one delivery, counting the
\* retries inside deliver_webhook and the retries of the task, never exceed
\* 1 + max_retries of the webhook config.
C33_AtMostOnePlusMaxRetriesPosts ==
    \A c \in webhook_configs : celery.posts[c.id] <= 1 + c.max_retries


\* C34: with the broker-backed bus a message whose handling has failed has not
\* been acknowledged: it is still with the broker, to be delivered again.
C34_FailedMessageIsRequeuedNotAcked ==
    \A id \in rabbitmq.failed :
       /\ id \notin rabbitmq.acked
       /\ \E i \in DOMAIN rabbitmq.queue : rabbitmq.queue[i].id = id

=============================================================================
